---- MODULE Spec2Model ----
(***************************************************************************)
(* The three-stage threaded pipeline of canny_t.cpp and ypc.cpp:           *)
(*   worker_load -> queues[1] -> worker_process -> queues[2] ->            *)
(*   worker_contour -> queues[3] (ypc.cpp: contour_queue) -> main          *)
(* and the ThreadSafeQueue the stages communicate through.                 *)
(*                                                                         *)
(* Every critical section of a queue (the body of push, and the body of    *)
(* pop between two returns of cond.wait) runs under the queue's mutex and  *)
(* is therefore one atomic step.  A thread blocked in cond.wait has        *)
(* pc = "wait"; notify_one moves one such thread to "woken", from where it *)
(* re-acquires the mutex and re-evaluates the wait predicate.  The C++     *)
(* standard allows spurious wake-ups, which SpuriousWakeup models.         *)
(*                                                                         *)
(* The imaging primitives (imread, GaussianBlur, Canny, findContours ...)  *)
(* are opaque: a cv::Mat is modelled by whether it is empty, by the stage  *)
(* that produced it and by the foreground blobs it shows.                  *)
(*                                                                         *)
(* The module also holds the timing aggregate of c++.cpp and               *)
(* original-thread.cpp (AggSpec): one worker task adding each frame's      *)
(* processing time to a sum, a count and a maximum under a mutex.          *)
(*                                                                         *)
(* BatchSpec is the parallel batch of Tbb.cpp, canny_p.cpp and             *)
(* openmp_n.cpp; EngineSpec is calculate_contour_metrics with the contour  *)
(* selection around it (c++.cpp, Tbb.cpp, canny_p.cpp, speed.cpp,          *)
(* crop_test.cpp, crop_canny.cpp, ypc.cpp), applied to the contours of a   *)
(* catalogue of outlines.  TwiceSpec calls the engine twice on the same     *)
(* contours; StrategySpec is the sequential and the parallel strategy of   *)
(* speed_test.cpp; MorphSpec is the morphology chain of Tbb.cpp and its    *)
(* split over two threads in canny_p.cpp and openmp.cpp; ChunkSpec is the  *)
(* work split of canny_p.cpp for any number of threads; TraceSpec is       *)
(* trace_contours of cannytest.cpp and CropSpec the crop box of            *)
(* minrectangle-CUDA.cpp.                                                  *)
(***************************************************************************)
EXTENDS Integers, Sequences, FiniteSets, TLC

VARIABLES
    image_paths,  \* main: the files found by the directory scan, as frame kinds
    variant,      \* which program runs: "canny_t", "ypc", "c++", "original-thread",
                  \* or a driver: "queue", "shared"
    queues,       \* queues[k]: contents of the std::queue of stream k
    pc,           \* position of every thread
    data,         \* the local `data` (ypc main: contour_data) of every consumer
    idx,          \* position of every producer's for loop
    results,      \* main: the `results` vector (processing_times has the same length)
    pushed,       \* history: pushed[k] = every item pushed on stream k, in order
    popped,       \* history: popped[k] = every return of pop on stream k, in order
    \* run_experiment (c++.cpp) and thread_main (original-thread.cpp)
    image_queue,          \* tbb::concurrent_queue<fs::path>
    processing_complete,  \* std::atomic<bool>
    mtx,                  \* std::mutex: "free" or the thread holding it
    totaltime_c,          \* sum of processing times (c++.cpp: average_time)
    number,               \* count of frames, the divisor of the average
    numbersum,            \* original-thread.cpp: copy of number kept by the worker
    max_process_time,     \* largest processing time
    max_image,            \* original-thread.cpp: file name of that frame
    path,                 \* worker local: the path taken from image_queue
    has_contours,         \* worker local: !contours.empty() after processing
    processtime,          \* worker local: double processtime (process_time)
    Average,              \* the reported average, as the fraction num/den
    aggregated,           \* history: the frames whose critical section completed
    \* the parallel batch of Tbb.cpp, canny_p.cpp and openmp_n.cpp
    processing_times,     \* the vector of per-frame processing times
    processed_count,      \* canny_p.cpp: std::atomic<int> processed_count
    chunks,               \* the index range [first, last] each worker thread runs
    report,               \* what main prints after the parallel loop
    \* calculate_contour_metrics and the contour selection around it
    found,                \* the contours findContours returned
    image_size,           \* crop_test.cpp, crop_canny.cpp: img.size()
    cnt,                  \* the contour selected (<<>>: none)
    metrics,              \* <<the record returned>> (<<>>: not returned yet)
    divisions,            \* history: the divisor of every division performed
    again,                \* <<the record a second call on the same contours returned>>
    \* speed_test.cpp
    sequential,           \* the vector process_images_sequential returned
    \* trace_contours of cannytest.cpp
    trace,                \* its argument and locals: edge_image, visited,
                          \* contours, contour, stack, i, j (<<>>: not called)
    \* process_image_cropped of minrectangle-CUDA.cpp
    crop                  \* binary's size, boundingRect's result and
                          \* bounding_box (<<>>: not called)

\* the variables of run_experiment / thread_main
aggvars == <<image_queue, processing_complete, mtx, totaltime_c, number, numbersum,
             max_process_time, max_image, path, has_contours, processtime, Average,
             aggregated>>

\* the variables of the parallel batch (with results, data, idx and pc)
batchvars == <<processing_times, processed_count, chunks, report>>

\* the variables of the metrics engine (with variant)
enginevars == <<found, image_size, cnt, metrics, divisions, again>>

\* the variables of the two strategies of speed_test.cpp (with image_paths,
\* chunks, idx, pc and results)
strategyvars == <<sequential>>

\* the functions checked on their own: the locals of trace_contours
\* (cannytest.cpp) and the crop box of process_image_cropped
\* (minrectangle-CUDA.cpp)
unitvars == <<trace, crop>>

vars == <<image_paths, variant, queues, pc, data, idx, results, pushed, popped, aggvars,
          batchvars, enginevars, strategyvars, unitvars>>

----------------------------------------------------------------------------
(* Bounds *)

\* longest list of image paths explored
MaxFrames == 3
\* items each producer of the queue driver pushes
ItemsPerProducer == 2
\* largest number of .tiff files in the directory of the parallel batch
MaxBatchFrames == 3
\* largest number of .tiff files in the directory run_experiment scans
MaxTimedFrames == 3
\* largest number of contours findContours returns
MaxContours == 2
\* largest number of image paths handed to the two strategies of speed_test.cpp
MaxStrategyFrames == 3
\* largest number of images and of threads of the work split of canny_p.cpp
MaxChunkFrames == 4
MaxThreads == 3
\* largest edge image handed to trace_contours
MaxTraceRows == 3
MaxTraceCols == 2
\* columns and rows of the largest binary image a crop box is computed for
MaxCropCols == 22
MaxCropRows == 22
\* columns and rows of the binary images the morphology is applied to
MaskWidth == 3
MaskHeight == 3

----------------------------------------------------------------------------
(* Data *)

\* cv::Mat(): the empty matrix
EmptyMat == [empty |-> TRUE, stage |-> "none", blobs |-> <<>>]

\* a decodable file, by the foreground blobs (areas) it shows
Image(blobs) == [empty |-> FALSE, stage |-> "frame", blobs |-> blobs]

\* what a path of the directory can be: an undecodable file, a frame equal to
\* the background, a frame with one blob, a frame with two blobs
FrameKinds == {[loadable |-> FALSE, blobs |-> <<>>],
               [loadable |-> TRUE, blobs |-> <<>>],
               [loadable |-> TRUE, blobs |-> <<4>>],
               [loadable |-> TRUE, blobs |-> <<2, 5>>]}

\* struct ImageData {image, name}
ImageData(image, name) == [image |-> image, name |-> name]

\* struct ContourData {contours, name}
ContourData(contours, name) == [contours |-> contours, name |-> name]

\* the std::string "" ; a file name is a non-empty string, modelled as <<i>>
EmptyString == <<>>

\* fs::path(path).filename().string() of the i-th path: never empty, since the
\* scan keeps only entries with extension ".tiff"
filename(i) == <<i>>

\* {cv::Mat(), ""}: the item the workers push last
Sentinel == ImageData(EmptyMat, EmptyString)

\* {{}, ""}: the item ypc's worker_contour pushes last
ContourSentinel == ContourData(<<>>, EmptyString)

\* cv::imread: an empty Mat when the file cannot be decoded
load_image(kind) == IF kind.loadable THEN Image(kind.blobs) ELSE EmptyMat

\* blur, subtract, threshold, dilate/erode: a non-empty mask of the same blobs
process_image(image) == [empty |-> FALSE, stage |-> "mask", blobs |-> image.blobs]

\* canny_t find_contours: a zeros(size) image with the contours drawn on it
find_contours_image(image) == [empty |-> FALSE, stage |-> "contour", blobs |-> image.blobs]

\* ypc find_contours: the vector of contours, one per blob
find_contours(image) == image.blobs

----------------------------------------------------------------------------
(* ThreadSafeQueue *)

\* std::queue::push: append at the tail
QueuePushMutantFront(s, d) == <<d>> \o s
QueuePush(s, d) == Append(s, d)

\* std::queue::front
QueueFront(s) == Head(s)

\* std::queue::pop: remove the head
QueuePopMutantKeep(s) == s
QueuePop(s) == Tail(s)

\* the predicate of cond.wait in pop: [this] { return !queue.empty(); }
WaitPredicate(s) == s /= <<>>

\* pop's return value once cond.wait has returned:
\*   if (queue.empty()) return false; ... return true;
PopMutantFalseOnSentinel(s) == s /= <<>> /\ ~QueueFront(s).image.empty
PopReturn(s) == IF s = <<>> THEN FALSE ELSE TRUE

\* the stream a thread pops from
InQ(t) == CASE t = "t2" -> 1
            [] t = "t3" -> 2
            [] t = "main" -> 3
            [] OTHER -> 1

\* threads blocked in cond.wait of stream k
Waiters(pcf, k) == {t \in DOMAIN pcf : pcf[t] = "wait" /\ InQ(t) = k}

\* cond.notify_one(): wakes one of the blocked threads, if there is one;
\* the result is the set of possible pc functions
NotifyMutantNone(pcf, k) == {pcf}
NotifyOne(pcf, k) ==
    IF Waiters(pcf, k) = {} THEN {pcf}
    ELSE {[pcf EXCEPT ![w] = "woken"] : w \in Waiters(pcf, k)}

\* ThreadSafeQueue::push by thread t on stream k, t continuing at `next`
PushMutantBounded(t, k, d, next) ==
    /\ Len(queues[k]) < 1
    /\ queues' = [queues EXCEPT ![k] = QueuePush(@, d)]
    /\ pushed' = [pushed EXCEPT ![k] = Append(@, d)]
    /\ \E npc \in NotifyOne(pc, k) : pc' = [npc EXCEPT ![t] = next]
Push(t, k, d, next) ==
    /\ queues' = [queues EXCEPT ![k] = QueuePush(@, d)]
    /\ pushed' = [pushed EXCEPT ![k] = Append(@, d)]
    /\ \E npc \in NotifyOne(pc, k) : pc' = [npc EXCEPT ![t] = next]

\* the loop condition of the workers: pop(data) && !data.image.empty()
LoopCondMutantNoSentinelTest(ok, d) == ok
LoopCond(ok, d) == ok /\ ~d.image.empty

----------------------------------------------------------------------------
(* Threads *)

\* main's t1, t2, t3 and main itself
PipeThreads == {"t1", "t2", "t3", "main"}

\* the queue driver: two producers, the thread that pushes the sentinel once
\* both have finished, and two workers popping the same stream
QProducers == {"p1", "p2"}
QConsumers == {"c1", "c2"}
QThreads == QProducers \cup QConsumers \cup {"closer"}

\* the shared-stage driver: two threads running worker_process on the same
\* input and output streams
SharedWorkers == {"w1", "w2"}

\* where thread t continues after pop returned ok with item d:
\*   while (input_queue.pop(data) && !data.image.empty()) {...}  push(sentinel)
AfterPop(t, ok, d) ==
    CASE t \in {"t2", "t3"} \cup SharedWorkers -> IF LoopCond(ok, d) THEN "work" ELSE "sentinel"
      [] t = "main" -> IF LoopCond(ok, d) THEN "work" ELSE "done"
      [] OTHER -> IF LoopCond(ok, d) THEN "pop" ELSE "done"

\* ThreadSafeQueue::pop by thread t: blocks while the queue is empty,
\* otherwise moves the head into data and returns
TSQPop(t) ==
    /\ pc[t] \in {"pop", "woken"}
    /\ LET k == InQ(t)
           s == queues[k]
       IN IF ~WaitPredicate(s)
          THEN /\ pc' = [pc EXCEPT ![t] = "wait"]
               /\ UNCHANGED <<queues, data, popped>>
          ELSE LET ok == PopReturn(s)
                   d == IF ok THEN QueueFront(s) ELSE data[t]
               IN /\ data' = [data EXCEPT ![t] = d]
                  /\ queues' = [queues EXCEPT ![k] = IF ok THEN QueuePop(s) ELSE s]
                  /\ popped' = [popped EXCEPT
                                   ![k] = Append(@, [item |-> d, ok |-> ok, by |-> t])]
                  /\ pc' = [pc EXCEPT ![t] = AfterPop(t, ok, d)]
    /\ UNCHANGED <<batchvars, enginevars, strategyvars, unitvars, aggvars, image_paths, variant, idx, results, pushed>>

\* a thread blocked in cond.wait may wake without a notification
SpuriousWakeup(t) ==
    /\ pc[t] = "wait"
    /\ pc' = [pc EXCEPT ![t] = "woken"]
    /\ UNCHANGED <<batchvars, enginevars, strategyvars, unitvars, aggvars, image_paths, variant, queues, data, idx, results, pushed, popped>>

\* run_experiment / thread_main before the worker task is started:
\*   atomic<double> average_time(0); atomic<int> number(0);
\*   atomic<double> max_process_time(0); atomic<bool> processing_complete(false);
\*   double numbersum=0,number=0;  std::string max_processing_time_image_o;
AggIdle ==
    /\ image_queue = <<>>
    /\ processing_complete = FALSE
    /\ mtx = "free"
    /\ totaltime_c = 0
    /\ number = 0
    /\ numbersum = 0
    /\ max_process_time = 0
    /\ max_image = EmptyString
    /\ path = 0
    /\ has_contours = FALSE
    /\ processtime = 0
    /\ Average = [set |-> FALSE, num |-> 0, den |-> 0]
    /\ aggregated = <<>>

\* the parallel batch before main has scanned the directory
BatchIdle ==
    /\ processing_times = <<>>
    /\ processed_count = 0
    /\ chunks = <<>>
    /\ report = <<>>

\* the metrics engine before findContours has returned
EngineIdle ==
    /\ found = <<>>
    /\ image_size = [width |-> 0, height |-> 0]
    /\ cnt = <<>>
    /\ metrics = <<>>
    /\ divisions = <<>>
    /\ again = <<>>
    /\ sequential = <<>>
    /\ trace = <<>>
    /\ crop = <<>>

----------------------------------------------------------------------------
(* The pipeline *)

\* worker_load, one iteration of the for loop: the image is pushed whether
\* or not load_image returned an empty Mat
worker_load_push ==
    /\ pc["t1"] = "load"
    /\ idx["t1"] <= Len(image_paths)
    /\ Push("t1", 1,
            ImageData(load_image(image_paths[idx["t1"]]), filename(idx["t1"])),
            "load")
    /\ idx' = [idx EXCEPT !["t1"] = @ + 1]
    /\ UNCHANGED <<batchvars, enginevars, strategyvars, unitvars, aggvars, image_paths, variant, data, results, popped>>

\* worker_load, after the loop: output_queue.push({cv::Mat(), ""})
worker_load_sentinel ==
    /\ pc["t1"] = "load"
    /\ idx["t1"] > Len(image_paths)
    /\ Push("t1", 1, Sentinel, "done")
    /\ UNCHANGED <<batchvars, enginevars, strategyvars, unitvars, aggvars, image_paths, variant, data, idx, results, popped>>

\* worker_process and worker_contour: input_queue.pop(data)
worker_pop(t) ==
    /\ t \in {"t2", "t3"}
    /\ TSQPop(t)

\* worker_process, loop body
worker_process_work ==
    /\ pc["t2"] = "work"
    /\ Push("t2", 2, ImageData(process_image(data["t2"].image), data["t2"].name), "pop")
    /\ UNCHANGED <<batchvars, enginevars, strategyvars, unitvars, aggvars, image_paths, variant, data, idx, results, popped>>

\* worker_process, after the loop
worker_process_sentinel_MutantLoopsOn ==
    /\ pc["t2"] = "sentinel"
    /\ Push("t2", 2, Sentinel, "pop")
    /\ UNCHANGED <<batchvars, enginevars, strategyvars, unitvars, aggvars, image_paths, variant, data, idx, results, popped>>
worker_process_sentinel ==
    /\ pc["t2"] = "sentinel"
    /\ Push("t2", 2, Sentinel, "done")
    /\ UNCHANGED <<batchvars, enginevars, strategyvars, unitvars, aggvars, image_paths, variant, data, idx, results, popped>>

\* canny_t worker_contour, loop body
worker_contour_work ==
    /\ variant = "canny_t"
    /\ pc["t3"] = "work"
    /\ Push("t3", 3,
            ImageData(find_contours_image(data["t3"].image), data["t3"].name), "pop")
    /\ UNCHANGED <<batchvars, enginevars, strategyvars, unitvars, aggvars, image_paths, variant, data, idx, results, popped>>

\* canny_t worker_contour, after the loop
worker_contour_sentinel ==
    /\ variant = "canny_t"
    /\ pc["t3"] = "sentinel"
    /\ Push("t3", 3, Sentinel, "done")
    /\ UNCHANGED <<batchvars, enginevars, strategyvars, unitvars, aggvars, image_paths, variant, data, idx, results, popped>>

\* ypc worker_contour: { lock_guard; output_queue.push(...); } in the loop
\* body and after the loop; the notification is a separate step
worker_contour_push ==
    /\ variant = "ypc"
    /\ pc["t3"] \in {"work", "sentinel"}
    /\ LET d == IF pc["t3"] = "work"
                THEN ContourData(find_contours(data["t3"].image), data["t3"].name)
                ELSE ContourSentinel
       IN /\ queues' = [queues EXCEPT ![3] = QueuePush(@, d)]
          /\ pushed' = [pushed EXCEPT ![3] = Append(@, d)]
    /\ pc' = [pc EXCEPT !["t3"] = IF pc["t3"] = "work" THEN "notify" ELSE "notify_end"]
    /\ UNCHANGED <<batchvars, enginevars, strategyvars, unitvars, aggvars, image_paths, variant, data, idx, results, popped>>

\* ypc worker_contour: output_cond.notify_one()
worker_contour_notify ==
    /\ variant = "ypc"
    /\ pc["t3"] \in {"notify", "notify_end"}
    /\ \E npc \in NotifyOne(pc, 3) :
          pc' = [npc EXCEPT !["t3"] = IF pc["t3"] = "notify" THEN "pop" ELSE "done"]
    /\ UNCHANGED <<batchvars, enginevars, strategyvars, unitvars, aggvars, image_paths, variant, queues, data, idx, results, pushed, popped>>

\* main: t1.join(); t2.join(); t3.join();
main_join ==
    /\ pc["main"] = "join"
    /\ \A t \in {"t1", "t2", "t3"} : pc[t] = "done"
    /\ pc' = [pc EXCEPT !["main"] = "pop"]
    /\ UNCHANGED <<batchvars, enginevars, strategyvars, unitvars, aggvars, image_paths, variant, queues, data, idx, results, pushed, popped>>

\* canny_t main: queues[3].pop(data)
main_pop ==
    /\ variant = "canny_t"
    /\ TSQPop("main")

\* ypc main: if (contour_data.name.empty()) break;
ContourLoopExitMutantEmptyContours(d) == d.contours = <<>>
ContourLoopExit(d) == d.name = EmptyString

\* ypc main: wait on contour_cond until the queue is non-empty, take the
\* head, break when its name is empty
main_pop_contour ==
    /\ variant = "ypc"
    /\ pc["main"] \in {"pop", "woken"}
    /\ IF ~WaitPredicate(queues[3])
       THEN /\ pc' = [pc EXCEPT !["main"] = "wait"]
            /\ UNCHANGED <<queues, data, popped>>
       ELSE LET d == QueueFront(queues[3])
            IN /\ data' = [data EXCEPT !["main"] = d]
               /\ queues' = [queues EXCEPT ![3] = QueuePop(@)]
               /\ popped' = [popped EXCEPT
                                ![3] = Append(@, [item |-> d, ok |-> TRUE, by |-> "main"])]
               /\ pc' = [pc EXCEPT
                            !["main"] = IF ContourLoopExit(d) THEN "done" ELSE "work"]
    /\ UNCHANGED <<batchvars, enginevars, strategyvars, unitvars, aggvars, image_paths, variant, idx, results, pushed>>

\* std::max_element over cv::contourArea: a contour of the largest area
largest_contour(contours) ==
    CHOOSE c \in {contours[i] : i \in DOMAIN contours} :
        \A i \in DOMAIN contours : contours[i] <= c

\* the contours main works on: canny_t runs findContours on the contour
\* image, ypc receives them in contour_data
main_contours(d) == IF variant = "ypc" THEN d.contours ELSE d.image.blobs

\* main, loop body: if (!contours.empty()) a result and a processing time
\* are recorded for the frame
main_work ==
    /\ pc["main"] = "work"
    /\ LET contours == main_contours(data["main"])
       IN results' = IF contours /= <<>>
                     THEN Append(results, [name |-> data["main"].name,
                                           contour |-> largest_contour(contours)])
                     ELSE results
    /\ pc' = [pc EXCEPT !["main"] = "pop"]
    /\ UNCHANGED <<batchvars, enginevars, strategyvars, unitvars, aggvars, image_paths, variant, queues, data, idx, pushed, popped>>

\* the steps of pipeline thread t, spurious wake-ups apart
ThreadStep(t) ==
    \/ t = "t1" /\ (worker_load_push \/ worker_load_sentinel)
    \/ worker_pop(t)
    \/ t = "t2" /\ (worker_process_work \/ worker_process_sentinel)
    \/ t = "t3" /\ (worker_contour_work \/ worker_contour_sentinel
                      \/ worker_contour_push \/ worker_contour_notify)
    \/ t = "main" /\ (main_join \/ main_pop \/ main_pop_contour \/ main_work)

\* main up to the creation of the threads
Init ==
    /\ image_paths \in UNION {[1..n -> FrameKinds] : n \in 0..MaxFrames}
    /\ variant \in {"canny_t", "ypc"}
    /\ queues = [k \in 1..3 |-> <<>>]
    /\ pc = [t \in PipeThreads |->
               CASE t = "t1" -> "load" [] t = "main" -> "join" [] OTHER -> "pop"]
    /\ data = [t \in {"t2", "t3", "main"} |->
                 IF t = "main" /\ variant = "ypc"
                 THEN ContourData(<<>>, EmptyString)
                 ELSE ImageData(EmptyMat, EmptyString)]
    /\ idx = [t \in {"t1"} |-> 1]
    /\ results = <<>>
    /\ pushed = [k \in 1..3 |-> <<>>]
    /\ popped = [k \in 1..3 |-> <<>>]
    /\ AggIdle
    /\ BatchIdle
    /\ EngineIdle

Next ==
    \/ worker_load_push
    \/ worker_load_sentinel
    \/ \E t \in {"t2", "t3"} : worker_pop(t)
    \/ worker_process_work
    \/ worker_process_sentinel
    \/ worker_contour_work
    \/ worker_contour_sentinel
    \/ worker_contour_push
    \/ worker_contour_notify
    \/ main_join
    \/ main_pop
    \/ main_pop_contour
    \/ main_work
    \/ \E t \in {"t2", "t3"} : SpuriousWakeup(t)

Spec == Init /\ [][Next]_vars

\* every thread that can take a step eventually takes one
FairSpec == Spec /\ \A t \in PipeThreads : WF_vars(ThreadStep(t))

----------------------------------------------------------------------------
(* The queue driver: ThreadSafeQueue under several producers and several   *)
(* workers.  Each producer pushes ItemsPerProducer frames on stream 1 as   *)
(* worker_load does; the sentinel is pushed once after all of them; each   *)
(* consumer runs the worker loop  while (pop(data) && !data.image.empty()) *)

\* the i-th frame of producer p: a non-empty image under a name of its own
QItem(p, i) == ImageData(Image(<<>>), <<p, i>>)

\* the number of frames pushed before the sentinel
QItems == Cardinality(QProducers) * ItemsPerProducer

\* output_queue.push({image, name}) by producer p
queue_producer_push(p) ==
    /\ idx[p] <= ItemsPerProducer
    /\ Push(p, 1, QItem(p, idx[p]), "push")
    /\ idx' = [idx EXCEPT ![p] = @ + 1]
    /\ UNCHANGED <<batchvars, enginevars, strategyvars, unitvars, aggvars, image_paths, variant, data, results, popped>>

\* output_queue.push({cv::Mat(), ""}) after the last frame
queue_close ==
    /\ pc["closer"] = "join"
    /\ \A p \in QProducers : idx[p] > ItemsPerProducer
    /\ Push("closer", 1, Sentinel, "done")
    /\ UNCHANGED <<batchvars, enginevars, strategyvars, unitvars, aggvars, image_paths, variant, data, idx, results, popped>>

\* input_queue.pop(data) by consumer c
queue_consumer_pop(c) == TSQPop(c)

QInit ==
    /\ image_paths = <<>>
    /\ variant = "queue"
    /\ queues = [k \in 1..3 |-> <<>>]
    /\ pc = [t \in QThreads |->
               CASE t \in QProducers -> "push" [] t = "closer" -> "join" [] OTHER -> "pop"]
    /\ data = [c \in QConsumers |-> ImageData(EmptyMat, EmptyString)]
    /\ idx = [p \in QProducers |-> 1]
    /\ results = <<>>
    /\ pushed = [k \in 1..3 |-> <<>>]
    /\ popped = [k \in 1..3 |-> <<>>]
    /\ AggIdle
    /\ BatchIdle
    /\ EngineIdle

QNext ==
    \/ \E p \in QProducers : queue_producer_push(p)
    \/ queue_close
    \/ \E c \in QConsumers : queue_consumer_pop(c)
    \/ \E c \in QConsumers : SpuriousWakeup(c)

QSpec == QInit /\ [][QNext]_vars

----------------------------------------------------------------------------
(* The shared-stage driver: worker_load feeding two threads that both run  *)
(* worker_process(queues[1], queues[2]).  main starts one thread per stage; *)
(* this driver starts the stage function twice on the same streams.         *)

\* worker_process run by w: input_queue.pop(data)
shared_worker_pop(w) == TSQPop(w)

\* worker_process run by w, loop body
shared_worker_work(w) ==
    /\ pc[w] = "work"
    /\ Push(w, 2, ImageData(process_image(data[w].image), data[w].name), "pop")
    /\ UNCHANGED <<batchvars, enginevars, strategyvars, unitvars, aggvars, image_paths, variant, data, idx, results, popped>>

\* worker_process run by w, after the loop
shared_worker_sentinel(w) ==
    /\ pc[w] = "sentinel"
    /\ Push(w, 2, Sentinel, "done")
    /\ UNCHANGED <<batchvars, enginevars, strategyvars, unitvars, aggvars, image_paths, variant, data, idx, results, popped>>

SharedInit ==
    /\ image_paths \in UNION {[1..n -> FrameKinds] : n \in 0..MaxFrames}
    /\ variant = "shared"
    /\ queues = [k \in 1..3 |-> <<>>]
    /\ pc = [t \in {"t1"} \cup SharedWorkers |-> IF t = "t1" THEN "load" ELSE "pop"]
    /\ data = [w \in SharedWorkers |-> ImageData(EmptyMat, EmptyString)]
    /\ idx = [t \in {"t1"} |-> 1]
    /\ results = <<>>
    /\ pushed = [k \in 1..3 |-> <<>>]
    /\ popped = [k \in 1..3 |-> <<>>]
    /\ AggIdle
    /\ BatchIdle
    /\ EngineIdle

SharedNext ==
    \/ worker_load_push
    \/ worker_load_sentinel
    \/ \E w \in SharedWorkers : shared_worker_pop(w)
    \/ \E w \in SharedWorkers : shared_worker_work(w)
    \/ \E w \in SharedWorkers : shared_worker_sentinel(w)
    \/ \E w \in SharedWorkers : SpuriousWakeup(w)

SharedSpec == SharedInit /\ [][SharedNext]_vars

----------------------------------------------------------------------------
(* The timing aggregate of c++.cpp (run_experiment) and original-thread.cpp *)
(* (thread_main): main pushes the paths of the directory on image_queue,    *)
(* one worker task takes them, processes each frame and adds its processing *)
(* time to the aggregate under mtx.  A frame is the result of findContours  *)
(* on it and the time the processing took (microseconds).                   *)

\* the .tiff files of the directory: findContours finds nothing, or finds
\* contours after a processing time of 10, 20 or 30
TimedFrameKinds ==
    {[contours |-> FALSE, time |-> 0]} \cup
    {[contours |-> TRUE, time |-> t] : t \in {10, 20, 30}}

\* double processtime;  the declaration leaves the value indeterminate: what
\* the stack slot held (the previous iteration's time) or anything else
IndeterminateDouble(stale) == {stale, 0 - 5, 0, 40}

\* the pipeline's variables, unused here
pipevars == <<queues, data, results, pushed, popped>>

\* the aggregate
aggstats == <<totaltime_c, number, numbersum, max_process_time, max_image>>

\* the locals of the worker's loop body
locals == <<path, has_contours, processtime>>

\* while (!processing_complete || ...): the flag is read first
agg_loop_test_MutantFlagOnly ==
    /\ pc["worker"] = "loop"
    /\ pc' = [pc EXCEPT !["worker"] =
                 IF ~processing_complete THEN "try_pop" ELSE "after_loop"]
    /\ UNCHANGED <<image_paths, variant, idx, pipevars, batchvars, enginevars, strategyvars, unitvars, image_queue,
                   processing_complete, mtx, aggstats, locals, Average, aggregated>>
agg_loop_test ==
    /\ pc["worker"] = "loop"
    /\ pc' = [pc EXCEPT !["worker"] =
                 IF ~processing_complete THEN "try_pop" ELSE "loop_empty"]
    /\ UNCHANGED <<image_paths, variant, idx, pipevars, batchvars, enginevars, strategyvars, unitvars, image_queue,
                   processing_complete, mtx, aggstats, locals, Average, aggregated>>

\* while (... || !image_queue.empty()): read only when the flag was set
agg_loop_empty_MutantInverted ==
    /\ pc["worker"] = "loop_empty"
    /\ pc' = [pc EXCEPT !["worker"] =
                 IF image_queue = <<>> THEN "try_pop" ELSE "after_loop"]
    /\ UNCHANGED <<image_paths, variant, idx, pipevars, batchvars, enginevars, strategyvars, unitvars, image_queue,
                   processing_complete, mtx, aggstats, locals, Average, aggregated>>
agg_loop_empty ==
    /\ pc["worker"] = "loop_empty"
    /\ pc' = [pc EXCEPT !["worker"] =
                 IF image_queue /= <<>> THEN "try_pop" ELSE "after_loop"]
    /\ UNCHANGED <<image_paths, variant, idx, pipevars, batchvars, enginevars, strategyvars, unitvars, image_queue,
                   processing_complete, mtx, aggstats, locals, Average, aggregated>>

\* fs::path path; if (image_queue.try_pop(path)) { contours; metrics;
\* double processtime; ... } else { yield(); }
agg_try_pop ==
    /\ pc["worker"] = "try_pop"
    /\ IF image_queue /= <<>>
       THEN /\ path' = Head(image_queue)
            /\ image_queue' = Tail(image_queue)
            /\ has_contours' = FALSE
            /\ processtime' \in IndeterminateDouble(processtime)
            /\ pc' = [pc EXCEPT !["worker"] = "process"]
       ELSE /\ pc' = [pc EXCEPT !["worker"] = "loop"]
            /\ UNCHANGED <<image_queue, locals>>
    /\ UNCHANGED <<image_paths, variant, idx, pipevars, batchvars, enginevars, strategyvars, unitvars, processing_complete, mtx,
                   aggstats, Average, aggregated>>

\* process_single_image / process_image_origin: returns before setting the
\* duration when no contour is found; process_image_origin ends with
\* number=numbersum+1
agg_process ==
    /\ pc["worker"] = "process"
    /\ LET f == image_paths[path]
       IN /\ has_contours' = f.contours
          /\ processtime' = IF f.contours THEN f.time ELSE processtime
          /\ number' = IF f.contours /\ variant = "original-thread"
                       THEN numbersum + 1 ELSE number
    /\ pc' = [pc EXCEPT !["worker"] = "lock"]
    /\ UNCHANGED <<image_paths, variant, idx, pipevars, batchvars, enginevars, strategyvars, unitvars, image_queue,
                   processing_complete, mtx, totaltime_c, numbersum,
                   max_process_time, max_image, path, Average, aggregated>>

\* lock_guard<mutex> lock(mtx);
agg_lock ==
    /\ pc["worker"] = "lock"
    /\ mtx = "free"
    /\ mtx' = "worker"
    /\ pc' = [pc EXCEPT !["worker"] = "cs_sum"]
    /\ UNCHANGED <<image_paths, variant, idx, pipevars, batchvars, enginevars, strategyvars, unitvars, image_queue,
                   processing_complete, aggstats, locals, Average, aggregated>>

\* totaltime_c = totaltime_c + processtime;
agg_cs_sum ==
    /\ pc["worker"] = "cs_sum"
    /\ totaltime_c' = totaltime_c + processtime
    /\ pc' = [pc EXCEPT !["worker"] = "cs_max"]
    /\ UNCHANGED <<image_paths, variant, idx, pipevars, batchvars, enginevars, strategyvars, unitvars, image_queue,
                   processing_complete, mtx, number, numbersum, max_process_time,
                   max_image, locals, Average, aggregated>>

\* if (processtime > max_processing_time_minrec_thread)
MaxExceededMutantLess(p, m) == p < m
MaxExceeded(p, m) == p > m

\* if (processtime > max) { max = processtime;
agg_cs_max ==
    /\ pc["worker"] = "cs_max"
    /\ IF MaxExceeded(processtime, max_process_time)
       THEN /\ max_process_time' = processtime
            /\ pc' = [pc EXCEPT !["worker"] =
                         IF variant = "original-thread" THEN "cs_image" ELSE "cs_count"]
       ELSE /\ pc' = [pc EXCEPT !["worker"] = "cs_count"]
            /\ UNCHANGED max_process_time
    /\ UNCHANGED <<image_paths, variant, idx, pipevars, batchvars, enginevars, strategyvars, unitvars, image_queue,
                   processing_complete, mtx, totaltime_c, number, numbersum,
                   max_image, locals, Average, aggregated>>

\* max_processing_time_image_minrec_thread=path.filename().string().c_str(); }
agg_cs_image_MutantSkip ==
    /\ pc["worker"] = "cs_image"
    /\ pc' = [pc EXCEPT !["worker"] = "cs_count"]
    /\ UNCHANGED <<image_paths, variant, idx, pipevars, batchvars, enginevars, strategyvars, unitvars, image_queue,
                   processing_complete, mtx, aggstats, locals, Average, aggregated>>
agg_cs_image ==
    /\ pc["worker"] = "cs_image"
    /\ max_image' = filename(path)
    /\ pc' = [pc EXCEPT !["worker"] = "cs_count"]
    /\ UNCHANGED <<image_paths, variant, idx, pipevars, batchvars, enginevars, strategyvars, unitvars, image_queue,
                   processing_complete, mtx, totaltime_c, number, numbersum,
                   max_process_time, locals, Average, aggregated>>

\* c++.cpp: number++;   original-thread.cpp: numbersum=number;
agg_cs_count ==
    /\ pc["worker"] = "cs_count"
    /\ IF variant = "c++"
       THEN number' = number + 1 /\ UNCHANGED numbersum
       ELSE numbersum' = number /\ UNCHANGED number
    /\ pc' = [pc EXCEPT !["worker"] = "unlock"]
    /\ UNCHANGED <<image_paths, variant, idx, pipevars, batchvars, enginevars, strategyvars, unitvars, image_queue,
                   processing_complete, mtx, totaltime_c, max_process_time,
                   max_image, locals, Average, aggregated>>

\* the end of the block: lock_guard releases mtx
agg_unlock ==
    /\ pc["worker"] = "unlock"
    /\ mtx' = "free"
    /\ aggregated' = Append(aggregated, [name |-> filename(path),
                                         contours |-> has_contours,
                                         processtime |-> processtime])
    /\ pc' = [pc EXCEPT !["worker"] = "loop"]
    /\ UNCHANGED <<image_paths, variant, idx, pipevars, batchvars, enginevars, strategyvars, unitvars, image_queue,
                   processing_complete, aggstats, locals, Average>>

\* after the loop; original-thread.cpp: Average = totaltime_c/number;
agg_after_loop ==
    /\ pc["worker"] = "after_loop"
    /\ Average' = IF variant = "original-thread"
                  THEN [set |-> TRUE, num |-> totaltime_c, den |-> number]
                  ELSE Average
    /\ pc' = [pc EXCEPT !["worker"] = "done"]
    /\ UNCHANGED <<image_paths, variant, idx, pipevars, batchvars, enginevars, strategyvars, unitvars, image_queue,
                   processing_complete, mtx, aggstats, locals, aggregated>>

\* main thread: image_queue.push(entry.path());
agg_main_push ==
    /\ pc["main"] = "push"
    /\ idx["main"] <= Len(image_paths)
    /\ image_queue' = Append(image_queue, idx["main"])
    /\ idx' = [idx EXCEPT !["main"] = @ + 1]
    /\ UNCHANGED <<image_paths, variant, pc, pipevars, batchvars, enginevars, strategyvars, unitvars, processing_complete, mtx,
                   aggstats, locals, Average, aggregated>>

\* main thread: processing_complete = true;
agg_main_complete ==
    /\ pc["main"] = "push"
    /\ idx["main"] > Len(image_paths)
    /\ processing_complete' = TRUE
    /\ pc' = [pc EXCEPT !["main"] = "wait"]
    /\ UNCHANGED <<image_paths, variant, idx, pipevars, batchvars, enginevars, strategyvars, unitvars, image_queue, mtx,
                   aggstats, locals, Average, aggregated>>

\* main thread: group.wait();  c++.cpp then computes
\* average_time.load() / number.load()
agg_main_wait_MutantNoWait ==
    /\ pc["main"] = "wait"
    /\ Average' = IF variant = "c++"
                  THEN [set |-> TRUE, num |-> totaltime_c, den |-> number]
                  ELSE Average
    /\ pc' = [pc EXCEPT !["main"] = "done"]
    /\ UNCHANGED <<image_paths, variant, idx, pipevars, batchvars, enginevars, strategyvars, unitvars, image_queue,
                   processing_complete, mtx, aggstats, locals, aggregated>>
agg_main_wait ==
    /\ pc["main"] = "wait"
    /\ pc["worker"] = "done"
    /\ Average' = IF variant = "c++"
                  THEN [set |-> TRUE, num |-> totaltime_c, den |-> number]
                  ELSE Average
    /\ pc' = [pc EXCEPT !["main"] = "done"]
    /\ UNCHANGED <<image_paths, variant, idx, pipevars, batchvars, enginevars, strategyvars, unitvars, image_queue,
                   processing_complete, mtx, aggstats, locals, aggregated>>

AggInit ==
    /\ image_paths \in UNION {[1..n -> TimedFrameKinds] : n \in 0..MaxTimedFrames}
    /\ variant \in {"c++", "original-thread"}
    /\ queues = [k \in 1..3 |-> <<>>]
    /\ pc = [t \in {"worker", "main"} |-> IF t = "worker" THEN "loop" ELSE "push"]
    /\ data = <<>>
    /\ idx = [t \in {"main"} |-> 1]
    /\ results = <<>>
    /\ pushed = [k \in 1..3 |-> <<>>]
    /\ popped = [k \in 1..3 |-> <<>>]
    /\ AggIdle
    /\ BatchIdle
    /\ EngineIdle

AggNext ==
    \/ agg_loop_test
    \/ agg_loop_empty
    \/ agg_try_pop
    \/ agg_process
    \/ agg_lock
    \/ agg_cs_sum
    \/ agg_cs_max
    \/ agg_cs_image
    \/ agg_cs_count
    \/ agg_unlock
    \/ agg_after_loop
    \/ agg_main_push
    \/ agg_main_complete
    \/ agg_main_wait

AggSpec == AggInit /\ [][AggNext]_vars

\* the steps of the consumer task and of the main thread
agg_worker ==
    \/ agg_loop_test
    \/ agg_loop_empty
    \/ agg_try_pop
    \/ agg_process
    \/ agg_lock
    \/ agg_cs_sum
    \/ agg_cs_max
    \/ agg_cs_image
    \/ agg_cs_count
    \/ agg_unlock
    \/ agg_after_loop
agg_main == agg_main_push \/ agg_main_complete \/ agg_main_wait

\* fair scheduling: a thread that can take a step eventually takes one
AggFairSpec == AggSpec /\ WF_vars(agg_worker) /\ WF_vars(agg_main)

----------------------------------------------------------------------------
(* The parallel batch of Tbb.cpp (tbb::parallel_for), canny_p.cpp (one      *)
(* std::thread per chunk) and openmp_n.cpp (#pragma omp parallel for): the  *)
(* frames of the directory are divided between two worker threads; each     *)
(* processes its frames and stores a ContourMetrics and a processing time;  *)
(* main prints the average and one record per path after the loop.          *)
(* Every stored value carries the index of the frame it was computed for    *)
(* (field `frame`), which the programs do not store.                        *)

\* the .tiff files of the directory: a file imread cannot decode, a frame
\* without contours, and frames with contours, each with the time the
\* processing of such a frame takes
BatchFrameKinds ==
    {[loadable |-> FALSE, contours |-> FALSE, time |-> 5],
     [loadable |-> TRUE, contours |-> FALSE, time |-> 10],
     [loadable |-> TRUE, contours |-> TRUE, time |-> 20],
     [loadable |-> TRUE, contours |-> TRUE, time |-> 30]}

\* the worker threads
BatchWorkers == {"th0", "th1"}

\* the ranges of the two workers when the first takes the frames 1..s
ChunksAt(s, n) == [t \in BatchWorkers |-> IF t = "th0" THEN <<1, s>> ELSE <<s + 1, n>>]

\* canny_p.cpp: chunk_size = image_paths.size() / num_threads, the last
\* thread takes the rest; tbb::parallel_for and omp parallel for divide the
\* range as the runtime decides
Chunkings(v, n) ==
    IF v = "canny_p" THEN {ChunksAt(n \div 2, n)}
    ELSE {ChunksAt(s, n) : s \in 0..n}

\* ContourMetrics(): value-initialised, every double is zero
ZeroMetrics(i) == [frame |-> i, fields |-> "zero"]

\* calculate_contour_metrics of Tbb.cpp, canny_p.cpp and openmp_n.cpp:
\*   ContourMetrics results; if (contours.empty()) return results;
\* returns the default-initialised struct, whose doubles are indeterminate
BatchMetrics(i, f) ==
    [frame |-> i, fields |-> IF f.contours THEN "computed" ELSE "indeterminate"]

\* the processing time measured for frame i
BatchTime(i, f) == [frame |-> i, time |-> f.time]

\* the loop header of a worker: for (i = start; i < end; ++i)
batch_loop(t) ==
    /\ pc[t] = "loop"
    /\ pc' = [pc EXCEPT ![t] = IF idx[t] > chunks[t][2] THEN "done" ELSE "process"]
    /\ UNCHANGED <<image_paths, variant, queues, data, idx, results, pushed, popped,
                   aggvars, batchvars, enginevars, strategyvars, unitvars>>

\* the loop body up to the stores.  Tbb.cpp: imread, continue when the image
\* is empty, else process_image and the time.  canny_p.cpp and openmp_n.cpp:
\* process_image returns ContourMetrics() when imread fails, and the time
\* is taken around the call
batch_process(t) ==
    /\ pc[t] = "process"
    /\ LET i == idx[t]
           f == image_paths[i]
       IN IF variant = "Tbb" /\ ~f.loadable
          THEN /\ idx' = [idx EXCEPT ![t] = i + 1]
               /\ pc' = [pc EXCEPT ![t] = "loop"]
               /\ UNCHANGED data
          ELSE /\ data' = [data EXCEPT ![t] =
                              [metrics |-> IF f.loadable THEN BatchMetrics(i, f)
                                           ELSE ZeroMetrics(i),
                               process_time |-> BatchTime(i, f)]]
               /\ pc' = [pc EXCEPT ![t] = IF variant = "Tbb" THEN "push_time"
                                          ELSE "critical"]
               /\ UNCHANGED idx
    /\ UNCHANGED <<image_paths, variant, queues, results, pushed, popped,
                   aggvars, batchvars, enginevars, strategyvars, unitvars>>

\* Tbb.cpp: processing_times.push_back(process_time);
batch_push_time(t) ==
    /\ pc[t] = "push_time"
    /\ processing_times' = Append(processing_times, data[t].process_time)
    /\ pc' = [pc EXCEPT ![t] = "push_result"]
    /\ UNCHANGED <<image_paths, variant, queues, data, idx, results, pushed, popped,
                   aggvars, enginevars, strategyvars, unitvars, processed_count, chunks, report>>

\* Tbb.cpp: results.push_back(result);
batch_push_result(t) ==
    /\ pc[t] = "push_result"
    /\ results' = Append(results, data[t].metrics)
    /\ idx' = [idx EXCEPT ![t] = @ + 1]
    /\ pc' = [pc EXCEPT ![t] = "loop"]
    /\ UNCHANGED <<image_paths, variant, queues, data, pushed, popped,
                   aggvars, batchvars, enginevars, strategyvars, unitvars>>

\* canny_p.cpp: { lock_guard; processing_times.push_back(process_time);
\*                all_results[i] = results; }
\* openmp_n.cpp: #pragma omp critical { results[img_path] = metrics; }
\* with metrics.process_time set
batch_critical(t) ==
    /\ pc[t] = "critical"
    /\ IF variant = "canny_p"
       THEN /\ processing_times' = Append(processing_times, data[t].process_time)
            /\ results' = [results EXCEPT ![idx[t]] = data[t].metrics]
            /\ pc' = [pc EXCEPT ![t] = "count"]
            /\ UNCHANGED idx
       ELSE /\ results' = (idx[t] :> data[t]) @@ results
            /\ idx' = [idx EXCEPT ![t] = @ + 1]
            /\ pc' = [pc EXCEPT ![t] = "loop"]
            /\ UNCHANGED processing_times
    /\ UNCHANGED <<image_paths, variant, queues, data, pushed, popped,
                   aggvars, enginevars, strategyvars, unitvars, processed_count, chunks, report>>

\* canny_p.cpp: processed_count++;
batch_count(t) ==
    /\ pc[t] = "count"
    /\ processed_count' = processed_count + 1
    /\ idx' = [idx EXCEPT ![t] = @ + 1]
    /\ pc' = [pc EXCEPT ![t] = "loop"]
    /\ UNCHANGED <<image_paths, variant, queues, data, results, pushed, popped,
                   aggvars, enginevars, strategyvars, unitvars, processing_times, chunks, report>>

RECURSIVE SumTimes(_)
\* std::accumulate over a vector of times
SumTimes(s) == IF s = <<>> THEN 0 ELSE Head(s).time + SumTimes(Tail(s))

\* the process_time fields of openmp_n.cpp's map, in key order
MapTimes(m) ==
    LET keys == DOMAIN m
        RECURSIVE Walk(_)
        Walk(i) == IF i > Len(image_paths) THEN <<>>
                   ELSE IF i \in keys THEN <<m[i].process_time>> \o Walk(i + 1)
                   ELSE Walk(i + 1)
    IN Walk(1)

\* an element read past the end of a concurrent_vector
OutOfRange == [frame |-> 0, fields |-> "indeterminate", time |-> 0]

\* the record main prints for path i: Tbb.cpp and canny_p.cpp pair
\* image_paths[i] with results[i] and processing_times[i]; openmp_n.cpp
\* looks the path up in the map
ReportRecord(i) ==
    IF variant = "openmp_n"
    THEN [identifier |-> filename(i),
          metrics |-> results[i].metrics,
          processing_time |-> results[i].process_time]
    ELSE [identifier |-> filename(i),
          metrics |-> IF i \in DOMAIN results THEN results[i] ELSE OutOfRange,
          processing_time |-> IF i \in DOMAIN processing_times
                              THEN processing_times[i] ELSE OutOfRange]

\* main after the parallel loop (canny_p.cpp: after the joins): the number
\* of times, their sum, and one record per path
batch_main_report ==
    /\ pc["main"] = "join"
    /\ \A t \in DOMAIN chunks : pc[t] = "done"
    /\ LET times == IF variant = "openmp_n" THEN MapTimes(results)
                    ELSE processing_times
       IN report' = [count |-> Len(times),
                     total |-> SumTimes(times),
                     records |-> [i \in 1..Len(image_paths) |-> ReportRecord(i)]]
    /\ pc' = [pc EXCEPT !["main"] = "done"]
    /\ UNCHANGED <<image_paths, variant, queues, data, idx, results, pushed, popped,
                   aggvars, enginevars, strategyvars, unitvars, processing_times, processed_count, chunks>>

BatchInit ==
    /\ image_paths \in UNION {[1..n -> BatchFrameKinds] : n \in 0..MaxBatchFrames}
    /\ variant \in {"Tbb", "canny_p", "openmp_n"}
    /\ chunks \in Chunkings(variant, Len(image_paths))
    /\ queues = [k \in 1..3 |-> <<>>]
    /\ pc = [t \in BatchWorkers \cup {"main"} |-> IF t = "main" THEN "join" ELSE "loop"]
    /\ data = [t \in BatchWorkers |-> [metrics |-> ZeroMetrics(0),
                                       process_time |-> [frame |-> 0, time |-> 0]]]
    /\ idx = [t \in BatchWorkers |-> chunks[t][1]]
    /\ results = IF variant = "canny_p"
                 THEN [i \in 1..Len(image_paths) |-> ZeroMetrics(0)]
                 ELSE <<>>
    /\ pushed = [k \in 1..3 |-> <<>>]
    /\ popped = [k \in 1..3 |-> <<>>]
    /\ AggIdle
    /\ EngineIdle
    /\ processing_times = <<>>
    /\ processed_count = 0
    /\ report = <<>>

BatchNext ==
    \/ \E t \in BatchWorkers : batch_loop(t)
    \/ \E t \in BatchWorkers : batch_process(t)
    \/ \E t \in BatchWorkers : batch_push_time(t)
    \/ \E t \in BatchWorkers : batch_push_result(t)
    \/ \E t \in BatchWorkers : batch_critical(t)
    \/ \E t \in BatchWorkers : batch_count(t)
    \/ batch_main_report

BatchSpec == BatchInit /\ [][BatchNext]_vars

----------------------------------------------------------------------------
(* The work split of canny_p.cpp for any number of threads: main starts     *)
(* num_threads threads one after the other, thread i with the range         *)
(* [i*chunk_size, (i+1)*chunk_size), the last one up to the last image, and *)
(* joins them all.  The threads run the loop body of the parallel batch.    *)

\* the threads of the vector `threads`, by index
threads == <<"th0", "th1", "th2", "th3", "th4", "th5">>

\* the .tiff files of the directory: a frame with contours or a file imread
\* cannot decode
ChunkFrameKinds == {f \in BatchFrameKinds : f.time \in {5, 20}}

\* int num_threads = thread::hardware_concurrency();
num_threads == Cardinality(DOMAIN chunks)

\* int chunk_size = image_paths.size() / num_threads;
chunk_size(n, t) == n \div t

\* int start = i * chunk_size;
\* int end = (i == num_threads - 1) ? image_paths.size() : (i + 1) * chunk_size;
process_images_range_MutantNoRemainder(i, n, t) ==
    <<i * chunk_size(n, t), (i + 1) * chunk_size(n, t)>>
process_images_range(i, n, t) ==
    <<i * chunk_size(n, t),
      IF i = t - 1 THEN n ELSE (i + 1) * chunk_size(n, t)>>

\* threads.emplace_back(process_images, start, end); the thread's loop runs
\* over the indices start <= i < end (kept here as the frames start+1..end)
chunk_spawn ==
    /\ pc["main"] = "spawn"
    /\ idx["main"] < num_threads
    /\ LET i == idx["main"]
           t == threads[i + 1]
           r == process_images_range(i, Len(image_paths), num_threads)
       IN /\ chunks' = [chunks EXCEPT ![t] = <<r[1] + 1, r[2]>>]
          /\ idx' = [idx EXCEPT !["main"] = i + 1, ![t] = r[1] + 1]
          /\ pc' = [pc EXCEPT ![t] = "loop"]
    /\ UNCHANGED <<image_paths, variant, queues, data, results, pushed, popped,
                   aggvars, enginevars, strategyvars, unitvars, processing_times,
                   processed_count, report>>

\* for (int i = 0; i < num_threads; ++i) ends; for (auto& t : threads) t.join();
chunk_spawned ==
    /\ pc["main"] = "spawn"
    /\ idx["main"] >= num_threads
    /\ pc' = [pc EXCEPT !["main"] = "join"]
    /\ UNCHANGED <<image_paths, variant, queues, data, idx, results, pushed, popped,
                   aggvars, batchvars, enginevars, strategyvars, unitvars>>

ChunkInit ==
    /\ image_paths \in UNION {[1..n -> ChunkFrameKinds] : n \in 0..MaxChunkFrames}
    /\ variant = "canny_p"
    /\ \E n \in 1..MaxThreads :
          LET started == {threads[i] : i \in 1..n}
          IN /\ chunks = [t \in started |-> <<1, 0>>]
             /\ pc = [t \in started \cup {"main"} |->
                          IF t = "main" THEN "spawn" ELSE "unborn"]
             /\ data = [t \in started |-> [metrics |-> ZeroMetrics(0),
                                            process_time |-> [frame |-> 0, time |-> 0]]]
             /\ idx = [t \in started \cup {"main"} |-> 0]
    /\ queues = [k \in 1..3 |-> <<>>]
    /\ results = [i \in 1..Len(image_paths) |-> ZeroMetrics(0)]
    /\ pushed = [k \in 1..3 |-> <<>>]
    /\ popped = [k \in 1..3 |-> <<>>]
    /\ AggIdle
    /\ EngineIdle
    /\ processing_times = <<>>
    /\ processed_count = 0
    /\ report = <<>>

ChunkNext ==
    \/ chunk_spawn
    \/ chunk_spawned
    \/ \E t \in DOMAIN chunks : batch_loop(t)
    \/ \E t \in DOMAIN chunks : batch_process(t)
    \/ \E t \in DOMAIN chunks : batch_critical(t)
    \/ \E t \in DOMAIN chunks : batch_count(t)
    \/ batch_main_report

ChunkSpec == ChunkInit /\ [][ChunkNext]_vars

----------------------------------------------------------------------------
(* The metrics engine: calculate_contour_metrics and the contour selection *)
(* around it.  A contour is a sequence of cv::Point, <<x, y>> with integer *)
(* coordinates.  cv::contourArea, cv::arcLength and cv::convexHull are     *)
(* computed on the points: the area by the shoelace formula (kept doubled, *)
(* so that it stays an integer; the sums are exact in double), the hull by *)
(* gift wrapping.  cv::arcLength converts the points to cv::Point2f and    *)
(* adds, in a double, the float std::sqrt(dx*dx + dy*dy) of every edge:    *)
(* a length is an integer number of units of 2^-23, the spacing of the     *)
(* floats in [1, 2).                                                       *)
(*                                                                         *)
(* A double is [kind, v]: kind "finite" with v the integers the value is   *)
(* made of, "inf" or "nan".                                                *)
(*   area                <<2*area, 2>>                 2*area / 2          *)
(*   area_ratio          <<2*hull area, 2*area>>                           *)
(*   circularity         <<2*area, perimeter>>         4*pi*A / (P*P) in   *)
(*                       c++.cpp and ypc.cpp, 2*sqrt(pi*A) / P elsewhere   *)
(*   circularity_ratio   <<2*hull area, hull perimeter, 2*area, perimeter>>*)
(* The roundings of the double multiplications and divisions are left out: *)
(* they are of relative size 2^-52, the float roundings of 2^-24.          *)

\* |n|
Abs(n) == IF n < 0 THEN 0 - n ELSE n

\* the closed polygon's vertex after position i
NextIndex(c, i) == IF i = Len(c) THEN 1 ELSE i + 1

\* twice cv::contourArea(c): the absolute value of the shoelace sum
Area2(c) ==
    LET RECURSIVE Shoelace(_)
        Shoelace(i) ==
            IF i > Len(c) THEN 0
            ELSE c[i][1] * c[NextIndex(c, i)][2] - c[NextIndex(c, i)][1] * c[i][2]
                 + Shoelace(i + 1)
    IN Abs(Shoelace(1))

\* (a - o) x (b - o)
Cross(o, a, b) == (a[1] - o[1]) * (b[2] - o[2]) - (a[2] - o[2]) * (b[1] - o[1])

\* the squared distance of p and q: dx*dx + dy*dy
Dist2(p, q) == (q[1] - p[1]) * (q[1] - p[1]) + (q[2] - p[2]) * (q[2] - p[2])

\* std::sqrt(float): the float nearest to the square root, in units of 2^-23,
\* for the sums of two squares up to 10*10 + 10*10
sqrtf ==
    0 :> 0 @@ 1 :> 8388608 @@ 2 :> 11863283 @@ 4 :> 16777216
    @@ 5 :> 18757498 @@ 8 :> 23726566 @@ 9 :> 25165824 @@ 10 :> 26527108
    @@ 13 :> 30245556 @@ 16 :> 33554432 @@ 17 :> 34587116 @@ 18 :> 35589848
    @@ 20 :> 37514996 @@ 25 :> 41943040 @@ 26 :> 42773676 @@ 29 :> 45174036
    @@ 32 :> 47453132 @@ 34 :> 48913568 @@ 36 :> 50331648 @@ 37 :> 51025912
    @@ 40 :> 53054216 @@ 41 :> 53713300 @@ 45 :> 56272492 @@ 49 :> 58720256
    @@ 50 :> 59316416 @@ 52 :> 60491112 @@ 53 :> 61069988 @@ 58 :> 63885736
    @@ 61 :> 65517124 @@ 64 :> 67108864 @@ 65 :> 67631120 @@ 68 :> 69174232
    @@ 72 :> 71179696 @@ 73 :> 71672296 @@ 74 :> 72161536 @@ 80 :> 75029992
    @@ 81 :> 75497472 @@ 82 :> 75962080 @@ 85 :> 77339144 @@ 89 :> 79137968
    @@ 90 :> 79581320 @@ 97 :> 82618208 @@ 98 :> 83042984 @@ 100 :> 83886080
    @@ 101 :> 84304464 @@ 104 :> 85547352 @@ 106 :> 86366008
    @@ 109 :> 87579640 @@ 113 :> 89172128 @@ 116 :> 90348072
    @@ 117 :> 90736672 @@ 125 :> 93787488 @@ 128 :> 94906264
    @@ 130 :> 95644848 @@ 136 :> 97827136 @@ 145 :> 101012216
    @@ 149 :> 102396008 @@ 162 :> 106769552 @@ 164 :> 107426600
    @@ 181 :> 112857176 @@ 200 :> 118632832

\* the length arcLength adds for the edge from p to q
EdgeLength(p, q) == sqrtf[Dist2(p, q)]

\* cv::arcLength(c, true): the sum of the edges of the closed polygon
arcLength(c) ==
    LET RECURSIVE Walk(_)
        Walk(i) ==
            IF i > Len(c) THEN 0
            ELSE EdgeLength(c[i], c[NextIndex(c, i)]) + Walk(i + 1)
    IN IF Len(c) <= 1 THEN 0 ELSE Walk(1)

\* gift wrapping: the vertices of the convex hull of the points of c, in
\* order around the hull from the lowest of the leftmost points, points
\* inside an edge left out
GiftWrapping(c) ==
    LET pts == {c[i] : i \in DOMAIN c}
        start == CHOOSE p \in pts :
                     \A q \in pts : p[1] < q[1] \/ (p[1] = q[1] /\ p[2] <= q[2])
        Successor(p) ==
            CHOOSE q \in pts \ {p} :
                \A r \in pts : \/ Cross(p, q, r) > 0
                               \/ Cross(p, q, r) = 0 /\ Dist2(p, r) <= Dist2(p, q)
        RECURSIVE March(_, _)
        March(p, acc) ==
            LET q == Successor(p)
            IN IF q = start THEN acc ELSE March(q, Append(acc, q))
    IN IF Cardinality(pts) = 1 THEN <<start>> ELSE March(start, <<start>>)

\* a hull that loses its last vertex
convexHull_MutantDropsVertex(c) ==
    LET h == GiftWrapping(c)
    IN IF Len(h) > 3 THEN SubSeq(h, 1, Len(h) - 1) ELSE h

\* cv::convexHull(c, hull)
convexHull(c) == GiftWrapping(c)

\* the outlines findContours follows, by their corners: squares, a diamond,
\* an L, rectangles and squares reaching each border of a 5x5 image, a
\* triangle, a line and an L one pixel wide (followed out and back), a
\* single pixel, a diamond whose sides are 5 diagonal steps long
ContourShapes ==
    {<<<<1, 1>>, <<3, 1>>, <<3, 3>>, <<1, 3>>>>,
     <<<<2, 1>>, <<3, 2>>, <<2, 3>>, <<1, 2>>>>,
     <<<<1, 1>>, <<3, 1>>, <<3, 2>>, <<2, 2>>, <<2, 3>>, <<1, 3>>>>,
     <<<<1, 1>>, <<4, 1>>, <<4, 3>>, <<1, 3>>>>,
     <<<<1, 1>>, <<3, 1>>, <<3, 4>>, <<1, 4>>>>,
     <<<<1, 1>>, <<3, 1>>, <<1, 3>>>>,
     <<<<0, 1>>, <<2, 1>>, <<2, 3>>, <<0, 3>>>>,
     <<<<1, 0>>, <<3, 0>>, <<3, 2>>, <<1, 2>>>>,
     <<<<1, 1>>, <<3, 1>>>>,
     <<<<2, 2>>>>,
     <<<<1, 1>>, <<3, 1>>, <<3, 3>>, <<3, 1>>>>,
     <<<<6, 1>>, <<11, 6>>, <<6, 11>>, <<1, 6>>>>}

\* the sign of n
Sgn(n) == IF n > 0 THEN 1 ELSE IF n < 0 THEN 0 - 1 ELSE 0

\* CHAIN_APPROX_NONE: every pixel of the outline is a point of the contour
\* (the corners are joined by horizontal, vertical or diagonal runs)
ApproxNone(c) ==
    LET Run(p, q) ==
            LET dx == q[1] - p[1]
                dy == q[2] - p[2]
                n == IF Abs(dx) > Abs(dy) THEN Abs(dx) ELSE Abs(dy)
            IN [k \in 1..n |-> <<p[1] + (k - 1) * Sgn(dx), p[2] + (k - 1) * Sgn(dy)>>]
        RECURSIVE Walk(_)
        Walk(i) ==
            IF i > Len(c) THEN <<>>
            ELSE Run(c[i], c[NextIndex(c, i)]) \o Walk(i + 1)
    IN IF Len(c) = 1 THEN c ELSE Walk(1)

\* the contours findContours returns for an outline: speed.cpp and ypc.cpp
\* pass CHAIN_APPROX_SIMPLE (only the end points of the runs are kept), the
\* other programs CHAIN_APPROX_NONE
findContours(v) ==
    IF v \in {"speed", "ypc"} THEN ContourShapes
    ELSE {ApproxNone(c) : c \in ContourShapes}

\* img.size() of the frames
ImageSizes == {[width |-> 5, height |-> 5], [width |-> 13, height |-> 13]}

\* every point of the contour is a pixel of the image
InImage(c, size) ==
    \A i \in DOMAIN c : /\ c[i][1] \in 0..(size.width - 1)
                        /\ c[i][2] \in 0..(size.height - 1)

(* doubles *)

Finite(v) == [kind |-> "finite", v |-> v]
Zero == Finite(<<0, 1>>)
NaN == [kind |-> "nan", v |-> <<>>]
Inf == [kind |-> "inf", v |-> <<>>]

\* x == 0.0
IsZero(x) == x.kind = "finite" /\ x.v[1] = 0

\* x / y on doubles, v the integers of a finite non-zero quotient
Divide(x, y, v) ==
    IF x.kind = "nan" \/ y.kind = "nan" THEN NaN
    ELSE IF IsZero(y) THEN (IF IsZero(x) THEN NaN ELSE Inf)
    ELSE IF IsZero(x) THEN Zero
    ELSE Finite(v)

\* what `divisions` keeps of a divisor
Divisor(y) == IF y.kind = "nan" THEN "nan" ELSE IF IsZero(y) THEN "zero" ELSE "nonzero"

\* the six doubles of struct ContourMetrics
MetricFields ==
    {"area_original", "area_hull", "area_ratio",
     "circularity_original", "circularity_hull", "circularity_ratio"}

\* ContourMetrics(): value-initialisation zeroes every double; so do the
\* member initialisers `= 0` of c++.cpp
ValueInitialized == [f \in MetricFields |-> Zero]

\* `ContourMetrics results;` of a struct without member initialisers: the
\* doubles are indeterminate
DefaultInitialized == [MetricFields -> {Zero, Finite(<<7, 1>>), NaN}]

\* the values of `ContourMetrics results;` that can reach the caller: every
\* double is assigned before the return unless contours is empty
Declared(contours) ==
    IF contours = <<>> THEN DefaultInitialized ELSE {ValueInitialized}

(* calculate_contour_metrics *)

\* cv::contourArea(c) as a double
contourArea(c) == Finite(<<Area2(c), 2>>)

\* a selection that takes the first contour whatever its area
max_element_MutantFirst(contours) == contours[1]

\* *max_element(contours, contourArea(c1) < contourArea(c2)): the first
\* contour no other contour is larger than
max_element(contours) ==
    contours[CHOOSE i \in DOMAIN contours :
                 /\ \A j \in DOMAIN contours : Area2(contours[j]) <= Area2(contours[i])
                 /\ \A j \in 1..(i - 1) : Area2(contours[j]) < Area2(contours[i])]

\* what a call leaves: the contour selected, the struct returned and the
\* divisors of the divisions performed
Outcome(c, m, d) == [cnt |-> c, metrics |-> m, divisions |-> d]

\* c++.cpp: calculate_contour_metrics
calculate_contour_metrics_cpp(contours) ==
    IF contours = <<>> THEN Outcome(<<>>, ValueInitialized, <<>>)
    ELSE
        LET c == max_element(contours)
            area_original == contourArea(c)
            perimeter_original == Finite(<<arcLength(c), 1>>)
            hull == convexHull(c)
            area_hull == contourArea(hull)
            perimeter_hull == Finite(<<arcLength(hull), 1>>)
            circularity_original ==
                Divide(area_original, perimeter_original,
                       <<Area2(c), arcLength(c)>>)
            circularity_hull ==
                Divide(area_hull, perimeter_hull, <<Area2(hull), arcLength(hull)>>)
        IN  IF IsZero(area_original) \/ IsZero(perimeter_original)
            THEN Outcome(c, ValueInitialized, <<>>)
            ELSE IF IsZero(area_hull) \/ IsZero(perimeter_hull)
            THEN Outcome(c, ValueInitialized, <<Divisor(perimeter_original)>>)
            ELSE Outcome(c,
                    [area_original |-> area_original,
                     area_hull |-> area_hull,
                     area_ratio |->
                         Divide(area_hull, area_original, <<Area2(hull), Area2(c)>>),
                     circularity_original |-> circularity_original,
                     circularity_hull |-> circularity_hull,
                     circularity_ratio |->
                         Divide(circularity_hull, circularity_original,
                                <<Area2(hull), arcLength(hull), Area2(c), arcLength(c)>>)],
                    <<Divisor(perimeter_original), Divisor(perimeter_hull),
                      Divisor(area_original), Divisor(circularity_original)>>)

\* Tbb.cpp, canny_p.cpp, crop_test.cpp, crop_canny.cpp:
\* calculate_contour_metrics, `results` the struct as it is declared
calculate_contour_metrics_Tbb(contours, results0) ==
    IF contours = <<>> THEN Outcome(<<>>, results0, <<>>)
    ELSE
        LET c == max_element(contours)
            area_original == contourArea(c)
            perimeter_original == Finite(<<arcLength(c), 1>>)
            circularity_original ==
                Divide(area_original, perimeter_original,
                       <<Area2(c), arcLength(c)>>)
            hull == convexHull(c)
            area_hull == contourArea(hull)
            perimeter_hull == Finite(<<arcLength(hull), 1>>)
            circularity_hull ==
                Divide(area_hull, perimeter_hull, <<Area2(hull), arcLength(hull)>>)
        IN  Outcome(c,
                [area_original |-> area_original,
                 area_hull |-> area_hull,
                 area_ratio |->
                     Divide(area_hull, area_original, <<Area2(hull), Area2(c)>>),
                 circularity_original |-> circularity_original,
                 circularity_hull |-> circularity_hull,
                 circularity_ratio |->
                     Divide(circularity_hull, circularity_original,
                            <<Area2(hull), arcLength(hull), Area2(c), arcLength(c)>>)],
                <<Divisor(perimeter_original), Divisor(perimeter_hull),
                  Divisor(area_original), Divisor(circularity_original)>>)

\* `if (x > 0)` around a division by x: the division and its divisor, or 0
Guarded(x, y, v) ==
    IF ~IsZero(y) THEN [value |-> Divide(x, y, v), divisions |-> <<Divisor(y)>>]
    ELSE [value |-> Zero, divisions |-> <<>>]

\* speed.cpp: calculate_contour_metrics
calculate_contour_metrics_speed(contours, results0) ==
    IF contours = <<>> THEN Outcome(<<>>, results0, <<>>)
    ELSE
        LET c == max_element(contours)
            area_original == contourArea(c)
            perimeter_original == Finite(<<arcLength(c), 1>>)
            circularity_original ==
                Guarded(area_original, perimeter_original, <<Area2(c), arcLength(c)>>)
            hull == convexHull(c)
            area_hull == contourArea(hull)
            perimeter_hull == Finite(<<arcLength(hull), 1>>)
            circularity_hull ==
                Guarded(area_hull, perimeter_hull, <<Area2(hull), arcLength(hull)>>)
            area_ratio ==
                Guarded(area_hull, area_original, <<Area2(hull), Area2(c)>>)
            circularity_ratio ==
                Guarded(circularity_hull.value, circularity_original.value,
                        <<Area2(hull), arcLength(hull), Area2(c), arcLength(c)>>)
        IN  Outcome(c,
                [area_original |-> area_original,
                 area_hull |-> area_hull,
                 area_ratio |-> area_ratio.value,
                 circularity_original |-> circularity_original.value,
                 circularity_hull |-> circularity_hull.value,
                 circularity_ratio |-> circularity_ratio.value],
                circularity_original.divisions \o circularity_hull.divisions
                    \o area_ratio.divisions \o circularity_ratio.divisions)

\* a border test that lets the last column through
is_contour_complete_MutantLastColumn(contour, size) ==
    \A i \in DOMAIN contour :
        ~ \/ contour[i][1] <= 0
          \/ contour[i][2] <= 0
          \/ contour[i][1] > size.width - 1
          \/ contour[i][2] >= size.height - 1

\* crop_test.cpp, crop_canny.cpp: is_contour_complete
is_contour_complete(contour, size) ==
    \A i \in DOMAIN contour :
        ~ \/ contour[i][1] <= 0
          \/ contour[i][2] <= 0
          \/ contour[i][1] >= size.width - 1
          \/ contour[i][2] >= size.height - 1

\* crop_test.cpp, crop_canny.cpp: the end of process_image
process_image_strict(contours, size, results0) ==
    IF contours = <<>> \/ Len(contours) > 1
    THEN Outcome(<<>>, ValueInitialized, <<>>)
    ELSE IF ~is_contour_complete(contours[1], size)
    THEN Outcome(<<>>, ValueInitialized, <<>>)
    ELSE calculate_contour_metrics_Tbb(contours, results0)

\* ypc.cpp: calculate_circularity
calculate_circularity(contour) ==
    Divide(contourArea(contour), Finite(<<arcLength(contour), 1>>),
           <<Area2(contour), arcLength(contour)>>)

(* the calls *)

EngineVariants == {"c++", "Tbb", "canny_p", "speed", "crop_test", "crop_canny", "ypc"}

\* the call returns
Return(o) ==
    /\ cnt' = o.cnt
    /\ metrics' = <<o.metrics>>
    /\ divisions' = o.divisions
    /\ pc' = [pc EXCEPT !["main"] = "done"]
    /\ UNCHANGED <<image_paths, variant, queues, data, idx, results, pushed, popped,
                   aggvars, batchvars, strategyvars, unitvars, found, image_size, again>>

\* c++.cpp: metrics = calculate_contour_metrics(contours)
call_metrics_cpp ==
    /\ variant = "c++"
    /\ pc["main"] = "findContours"
    /\ Return(calculate_contour_metrics_cpp(found))

\* Tbb.cpp, canny_p.cpp: return calculate_contour_metrics(contours)
call_metrics_Tbb ==
    /\ variant \in {"Tbb", "canny_p"}
    /\ pc["main"] = "findContours"
    /\ \E results0 \in Declared(found) :
           Return(calculate_contour_metrics_Tbb(found, results0))

\* speed.cpp: process_image after findContours: the largest contour alone
\* is passed on
call_process_image_speed ==
    /\ variant = "speed"
    /\ pc["main"] = "findContours"
    /\ IF found /= <<>>
       THEN LET single_contour == <<max_element(found)>>
            IN \E results0 \in Declared(single_contour) :
                   Return(calculate_contour_metrics_speed(single_contour, results0))
       ELSE Return(Outcome(<<>>, ValueInitialized, <<>>))

\* crop_test.cpp, crop_canny.cpp: process_image after findContours
call_process_image_strict ==
    /\ variant \in {"crop_test", "crop_canny"}
    /\ pc["main"] = "findContours"
    /\ \E results0 \in Declared(found) :
           Return(process_image_strict(found, image_size, results0))

\* ypc.cpp main: the body of the loop for one ContourData, with the
\* "Circularity Ratio" the output loop prints for it
ypc_main_metrics ==
    /\ variant = "ypc"
    /\ pc["main"] = "findContours"
    /\ IF found /= <<>>
       THEN LET largest == max_element(found)
                hull == convexHull(largest)
                circularity == calculate_circularity(largest)
                hull_circularity == calculate_circularity(hull)
            IN  /\ cnt' = largest
                /\ metrics' =
                       <<[circularity |-> circularity,
                          hull_circularity |-> hull_circularity,
                          circularity_ratio |->
                              Divide(hull_circularity, circularity,
                                     <<Area2(hull), arcLength(hull),
                                       Area2(largest),
                                       arcLength(largest)>>)]>>
                /\ divisions' =
                       <<Divisor(Finite(<<arcLength(largest), 1>>)),
                         Divisor(Finite(<<arcLength(hull), 1>>)),
                         Divisor(circularity)>>
       ELSE UNCHANGED <<cnt, metrics, divisions>>
    /\ pc' = [pc EXCEPT !["main"] = "done"]
    /\ UNCHANGED <<image_paths, variant, queues, data, idx, results, pushed, popped,
                   aggvars, batchvars, strategyvars, unitvars, found, image_size, again>>

\* calculate_contour_metrics (process_image in the crop programs and in
\* speed.cpp) of program v on the contours
Engine(v, contours, size, results0) ==
    IF v = "c++" THEN calculate_contour_metrics_cpp(contours)
    ELSE IF v \in {"Tbb", "canny_p"} THEN calculate_contour_metrics_Tbb(contours, results0)
    ELSE IF v = "speed"
    THEN IF contours /= <<>>
         THEN calculate_contour_metrics_speed(<<max_element(contours)>>, results0)
         ELSE Outcome(<<>>, ValueInitialized, <<>>)
    ELSE process_image_strict(contours, size, results0)

\* the same function is called a second time on the same contours
call_again ==
    /\ variant \in EngineVariants \ {"ypc"}
    /\ pc["main"] = "done"
    /\ \E results0 \in Declared(found) :
           again' = <<Engine(variant, found, image_size, results0).metrics>>
    /\ pc' = [pc EXCEPT !["main"] = "twice"]
    /\ UNCHANGED <<image_paths, variant, queues, data, idx, results, pushed, popped,
                   aggvars, batchvars, strategyvars, unitvars, found, image_size, cnt, metrics, divisions>>

EngineInit ==
    /\ variant \in EngineVariants
    /\ image_size \in ImageSizes
    /\ found \in UNION {[1..n -> findContours(variant)] : n \in 0..MaxContours}
    /\ \A i \in DOMAIN found : InImage(found[i], image_size)
    /\ cnt = <<>>
    /\ metrics = <<>>
    /\ divisions = <<>>
    /\ again = <<>>
    /\ sequential = <<>>
    /\ trace = <<>>
    /\ crop = <<>>
    /\ image_paths = <<>>
    /\ queues = [k \in 1..3 |-> <<>>]
    /\ pc = [t \in {"main"} |-> "findContours"]
    /\ data = <<>>
    /\ idx = [t \in {"main"} |-> 1]
    /\ results = <<>>
    /\ pushed = [k \in 1..3 |-> <<>>]
    /\ popped = [k \in 1..3 |-> <<>>]
    /\ AggIdle
    /\ BatchIdle

EngineNext ==
    \/ call_metrics_cpp
    \/ call_metrics_Tbb
    \/ call_process_image_speed
    \/ call_process_image_strict
    \/ ypc_main_metrics

EngineSpec == EngineInit /\ [][EngineNext]_vars

\* the metrics engine called twice on the contours of one frame, for the
\* programs whose calculate_contour_metrics is applied to whatever
\* findContours returned
TwiceInit ==
    /\ EngineInit
    /\ variant \in {"c++", "Tbb"}
    /\ image_size = [width |-> 13, height |-> 13]

TwiceNext ==
    \/ call_metrics_cpp
    \/ call_metrics_Tbb
    \/ call_again

TwiceSpec == TwiceInit /\ [][TwiceNext]_vars

----------------------------------------------------------------------------
(* The two execution strategies of speed_test.cpp: main hands the same     *)
(* img_paths to process_images_sequential, which appends the result of     *)
(* process_image for each path in turn, and then to                        *)
(* process_images_parallel, which sizes the result vector first and lets   *)
(* cv::parallel_for_ run the loop body on disjoint ranges of the indices,  *)
(* here on two threads.  A frame is whether imread decodes it and the      *)
(* contours findContours (CHAIN_APPROX_SIMPLE) returns for it.             *)

StrategyFrames ==
    {[loadable |-> FALSE, contours |-> <<>>],
     [loadable |-> TRUE, contours |-> <<>>],
     [loadable |-> TRUE, contours |-> <<<<<<1, 1>>, <<3, 1>>, <<3, 3>>, <<1, 3>>>>>>],
     [loadable |-> TRUE,
      contours |-> <<<<<<2, 1>>, <<3, 2>>, <<2, 3>>, <<1, 2>>>>,
                     <<<<1, 1>>, <<3, 1>>, <<3, 2>>, <<2, 2>>, <<2, 3>>, <<1, 3>>>>>>],
     [loadable |-> TRUE, contours |-> <<<<<<1, 1>>, <<3, 1>>, <<3, 3>>, <<3, 1>>>>>>]}

\* speed_test.cpp: process_image.  calculate_contour_metrics takes the
\* largest contour and assigns every double of its `results` as
\* speed.cpp's does
process_image_speed_test(f, results0) ==
    IF ~f.loadable THEN ValueInitialized
    ELSE IF f.contours /= <<>>
    THEN calculate_contour_metrics_speed(<<max_element(f.contours)>>, results0).metrics
    ELSE ValueInitialized

\* process_images_sequential: one turn of the loop, and the return
process_images_sequential ==
    /\ pc["main"] = "sequential"
    /\ IF idx["main"] <= Len(image_paths)
       THEN /\ \E results0 \in Declared(<<image_paths[idx["main"]]>>) :
                   sequential' =
                       Append(sequential,
                              process_image_speed_test(image_paths[idx["main"]], results0))
            /\ idx' = [idx EXCEPT !["main"] = @ + 1]
            /\ pc' = pc
       ELSE /\ pc' = [pc EXCEPT !["main"] = "parallel"]
            /\ UNCHANGED <<sequential, idx>>
    /\ UNCHANGED <<image_paths, variant, queues, data, results, pushed, popped,
                   aggvars, batchvars, enginevars, unitvars>>

\* process_images_parallel: vector<ContourMetrics> results(img_paths.size())
\* and the call of parallel_for_, which divides Range(0, size) as it decides
process_images_parallel ==
    /\ pc["main"] = "parallel"
    /\ results' = [i \in 1..Len(image_paths) |-> ValueInitialized]
    /\ \E s \in 0..Len(image_paths) :
           /\ chunks' = ChunksAt(s, Len(image_paths))
           /\ idx' = [t \in DOMAIN idx |->
                         IF t = "th0" THEN 1 ELSE IF t = "th1" THEN s + 1 ELSE idx[t]]
    /\ pc' = [t \in DOMAIN pc |-> IF t = "main" THEN "join" ELSE "loop"]
    /\ UNCHANGED <<image_paths, variant, queues, data, pushed, popped, aggvars,
                   processing_times, processed_count, report, enginevars, strategyvars, unitvars>>

\* a loop body that stores at the position within its own range
parallel_body_MutantRangeRelative(t) ==
    /\ pc[t] = "loop"
    /\ IF idx[t] <= chunks[t][2]
       THEN /\ \E results0 \in Declared(<<image_paths[idx[t]]>>) :
                   results' = [results EXCEPT
                                  ![idx[t] - chunks[t][1] + 1] =
                                      process_image_speed_test(image_paths[idx[t]], results0)]
            /\ idx' = [idx EXCEPT ![t] = @ + 1]
            /\ pc' = pc
       ELSE /\ pc' = [pc EXCEPT ![t] = "done"]
            /\ UNCHANGED <<results, idx>>
    /\ UNCHANGED <<image_paths, variant, queues, data, pushed, popped,
                   aggvars, batchvars, enginevars, strategyvars, unitvars>>

\* the body parallel_for_ runs on one range:
\*   for (i = range.start; i < range.end; i++) results[i] = process_image(...)
parallel_body(t) ==
    /\ pc[t] = "loop"
    /\ IF idx[t] <= chunks[t][2]
       THEN /\ \E results0 \in Declared(<<image_paths[idx[t]]>>) :
                   results' = [results EXCEPT
                                  ![idx[t]] =
                                      process_image_speed_test(image_paths[idx[t]], results0)]
            /\ idx' = [idx EXCEPT ![t] = @ + 1]
            /\ pc' = pc
       ELSE /\ pc' = [pc EXCEPT ![t] = "done"]
            /\ UNCHANGED <<results, idx>>
    /\ UNCHANGED <<image_paths, variant, queues, data, pushed, popped,
                   aggvars, batchvars, enginevars, strategyvars, unitvars>>

\* parallel_for_ returns when every range has been run
parallel_for_return ==
    /\ pc["main"] = "join"
    /\ \A t \in BatchWorkers : pc[t] = "done"
    /\ pc' = [pc EXCEPT !["main"] = "done"]
    /\ UNCHANGED <<image_paths, variant, queues, data, idx, results, pushed, popped,
                   aggvars, batchvars, enginevars, strategyvars, unitvars>>

StrategyInit ==
    /\ image_paths \in UNION {[1..n -> StrategyFrames] : n \in 0..MaxStrategyFrames}
    /\ variant = "speed_test"
    /\ queues = [k \in 1..3 |-> <<>>]
    /\ pc = [t \in BatchWorkers \cup {"main"} |->
                IF t = "main" THEN "sequential" ELSE "idle"]
    /\ data = <<>>
    /\ idx = [t \in BatchWorkers \cup {"main"} |-> 1]
    /\ results = <<>>
    /\ pushed = [k \in 1..3 |-> <<>>]
    /\ popped = [k \in 1..3 |-> <<>>]
    /\ AggIdle
    /\ BatchIdle
    /\ EngineIdle

StrategyNext ==
    \/ process_images_sequential
    \/ process_images_parallel
    \/ \E t \in BatchWorkers : parallel_body(t)
    \/ parallel_for_return

StrategySpec == StrategyInit /\ [][StrategyNext]_vars

----------------------------------------------------------------------------
(* The morphology of process_image in Tbb.cpp (four calls in sequence),    *)
(* canny_p.cpp (threads t3 and t4) and openmp.cpp (two omp sections).  A   *)
(* binary image is the set of its pixels of value 255; `data` holds the    *)
(* cv::Mat locals of process_image, <<>> for a Mat not assigned yet.  The  *)
(* kernel is getStructuringElement(MORPH_CROSS, Size(3, 3)); outside the   *)
(* image erode reads the largest and dilate the smallest value             *)
(* (morphologyDefaultBorderValue).                                         *)

Pixels == (1..MaskWidth) \X (1..MaskHeight)

\* the pixels under the 3x3 cross centred on p
CrossKernel(p) ==
    {p, <<p[1] - 1, p[2]>>, <<p[1] + 1, p[2]>>, <<p[1], p[2] - 1>>, <<p[1], p[2] + 1>>}

\* cv::erode(src, dst, kernel): the minimum under the kernel
erode(src) == {p \in Pixels : \A q \in CrossKernel(p) \cap Pixels : q \in src}

\* cv::dilate(src, dst, kernel): the maximum under the kernel
dilate(src) == {p \in Pixels : \E q \in CrossKernel(p) \cap Pixels : q \in src}

\* the Mat locals of process_image (edge: the argument passed to Canny)
Mats == {"binary", "erode1", "dilate1", "dilate2", "erode2", "temp", "edge"}

\* the threads of the split (omp sections in openmp.cpp)
MorphThreads == {"t3", "t4"}

\* Tbb.cpp: erode, dilate, dilate, erode in sequence, and Canny(erode2, ...)
morph_sequential ==
    /\ variant = "Tbb"
    /\ pc["main"] = "morphology"
    /\ LET erode1 == erode(data["binary"][1])
           dilate1 == dilate(erode1)
           dilate2 == dilate(dilate1)
           erode2 == erode(dilate2)
       IN data' = [data EXCEPT !["erode1"] = <<erode1>>, !["dilate1"] = <<dilate1>>,
                               !["dilate2"] = <<dilate2>>, !["erode2"] = <<erode2>>,
                               !["edge"] = <<erode2>>]
    /\ pc' = [pc EXCEPT !["main"] = "done"]
    /\ UNCHANGED <<image_paths, variant, queues, idx, results, pushed, popped,
                   aggvars, batchvars, enginevars, strategyvars, unitvars>>

\* canny_p.cpp: thread t3(...), thread t4(...); openmp.cpp: omp parallel sections
morph_fork ==
    /\ variant \in {"canny_p", "openmp"}
    /\ pc["main"] = "morphology"
    /\ pc' = [t \in DOMAIN pc |->
                 IF t = "main" THEN "join" ELSE IF t = "t3" THEN "erode" ELSE "dilate"]
    /\ UNCHANGED <<image_paths, variant, queues, data, idx, results, pushed, popped,
                   aggvars, batchvars, enginevars, strategyvars, unitvars>>

\* the first branch: erode(binary, erode1); dilate(erode1, dilate1)
morph_t3 ==
    /\ pc["t3"] \in {"erode", "dilate"}
    /\ IF pc["t3"] = "erode"
       THEN /\ data' = [data EXCEPT !["erode1"] = <<erode(data["binary"][1])>>]
            /\ pc' = [pc EXCEPT !["t3"] = "dilate"]
       ELSE /\ data' = [data EXCEPT !["dilate1"] = <<dilate(data["erode1"][1])>>]
            /\ pc' = [pc EXCEPT !["t3"] = "done"]
    /\ UNCHANGED <<image_paths, variant, queues, idx, results, pushed, popped,
                   aggvars, batchvars, enginevars, strategyvars, unitvars>>

\* the second branch: dilate(binary, temp); erode(temp, erode2)
\* (openmp.cpp uses dilate2 where canny_p.cpp uses temp)
morph_t4 ==
    /\ pc["t4"] \in {"dilate", "erode"}
    /\ LET temp == IF variant = "openmp" THEN "dilate2" ELSE "temp"
       IN IF pc["t4"] = "dilate"
          THEN /\ data' = [data EXCEPT ![temp] = <<dilate(data["binary"][1])>>]
               /\ pc' = [pc EXCEPT !["t4"] = "erode"]
          ELSE /\ data' = [data EXCEPT !["erode2"] = <<erode(data[temp][1])>>]
               /\ pc' = [pc EXCEPT !["t4"] = "done"]
    /\ UNCHANGED <<image_paths, variant, queues, idx, results, pushed, popped,
                   aggvars, batchvars, enginevars, strategyvars, unitvars>>

\* t3.join(); t4.join(); canny_p.cpp: dilate(dilate1, dilate2);
\* Canny(erode2, edge, 50, 150)
morph_join ==
    /\ pc["main"] = "join"
    /\ \A t \in MorphThreads : pc[t] = "done"
    /\ data' = [data EXCEPT
                   !["dilate2"] = IF variant = "canny_p"
                                  THEN <<dilate(data["dilate1"][1])>> ELSE @,
                   !["edge"] = data["erode2"]]
    /\ pc' = [pc EXCEPT !["main"] = "done"]
    /\ UNCHANGED <<image_paths, variant, queues, idx, results, pushed, popped,
                   aggvars, batchvars, enginevars, strategyvars, unitvars>>

MorphInit ==
    /\ variant \in {"Tbb", "canny_p", "openmp"}
    /\ \E b \in SUBSET Pixels :
           data = [m \in Mats |-> IF m = "binary" THEN <<b>> ELSE <<>>]
    /\ pc = [t \in MorphThreads \cup {"main"} |->
                IF t = "main" THEN "morphology" ELSE "idle"]
    /\ image_paths = <<>>
    /\ queues = [k \in 1..3 |-> <<>>]
    /\ idx = [t \in {"main"} |-> 1]
    /\ results = <<>>
    /\ pushed = [k \in 1..3 |-> <<>>]
    /\ popped = [k \in 1..3 |-> <<>>]
    /\ AggIdle
    /\ BatchIdle
    /\ EngineIdle

MorphNext ==
    \/ morph_sequential
    \/ morph_fork
    \/ morph_t3
    \/ morph_t4
    \/ morph_join

MorphSpec == MorphInit /\ [][MorphNext]_vars

----------------------------------------------------------------------------
(* trace_contours of cannytest.cpp: a scan of the edge image in row-major   *)
(* order that starts, at every non-zero pixel not yet visited, a depth-     *)
(* first walk over the 4-neighbours with an explicit stack.  The vectors    *)
(* are functions over 0-based indices, as in the program; the stack's top   *)
(* is the last element of the sequence.                                     *)

\* the values of the pixels of an edge image
EdgeValues == {0, 255}

\* std::vector<std::vector<int>> of `rows` rows of `cols` elements
EdgeImages(rows, cols) == [0..(rows - 1) -> [0..(cols - 1) -> EdgeValues]]

\* edge_image.size() and edge_image[0].size()
Rows(img) == Cardinality(DOMAIN img)
Cols(img) == Cardinality(DOMAIN img[0])

\* directions = {{-1, 0}, {1, 0}, {0, -1}, {0, 1}}
directions_MutantNoLeft == <<<<-1, 0>>, <<1, 0>>, <<0, 1>>>>
directions == <<<<-1, 0>>, <<1, 0>>, <<0, -1>>, <<0, 1>>>>

\* the neighbours of (x, y) the walk pushes, in the order of `directions`:
\* inside the image, non-zero and not visited
Pushed(img, seen, x, y) ==
    LET next == [k \in DOMAIN directions |->
                    <<x + directions[k][1], y + directions[k][2]>>]
        wanted(p) == /\ p[1] >= 0 /\ p[1] < Rows(img)
                     /\ p[2] >= 0 /\ p[2] < Cols(img)
                     /\ img[p[1]][p[2]] /= 0
                     /\ ~seen[p[1]][p[2]]
    IN SelectSeq(next, wanted)

\* the two for loops: their tests, the increments, and the test of the pixel
\* that starts a walk; return contours when the rows are exhausted
trace_scan ==
    /\ pc["main"] = "scan"
    /\ LET i == trace.i
           j == trace.j
       IN IF i >= Rows(trace.edge_image)
          THEN /\ pc' = [pc EXCEPT !["main"] = "done"]
               /\ UNCHANGED trace
          ELSE IF j >= Cols(trace.edge_image)
          THEN /\ trace' = [trace EXCEPT !.i = i + 1, !.j = 0]
               /\ UNCHANGED pc
          ELSE IF trace.edge_image[i][j] /= 0 /\ ~trace.visited[i][j]
          THEN /\ trace' = [trace EXCEPT !.contour = <<>>, !.stack = <<<<i, j>>>>]
               /\ pc' = [pc EXCEPT !["main"] = "walk"]
          ELSE /\ trace' = [trace EXCEPT !.j = j + 1]
               /\ UNCHANGED pc
    /\ UNCHANGED <<image_paths, variant, queues, data, idx, results, pushed, popped,
                   aggvars, batchvars, enginevars, strategyvars, crop>>

\* one turn of while (!stack.empty()): pop the top; if it is not visited,
\* mark it, append it to the contour and push its neighbours
trace_pop ==
    /\ pc["main"] = "walk"
    /\ trace.stack /= <<>>
    /\ LET top == trace.stack[Len(trace.stack)]
           x == top[1]
           y == top[2]
           rest == SubSeq(trace.stack, 1, Len(trace.stack) - 1)
           marked == [trace.visited EXCEPT ![x][y] = TRUE]
       IN IF ~trace.visited[x][y]
          THEN trace' = [trace EXCEPT
                            !.visited = marked,
                            !.contour = Append(@, <<x, y>>),
                            !.stack = rest \o Pushed(trace.edge_image, marked, x, y)]
          ELSE trace' = [trace EXCEPT !.stack = rest]
    /\ UNCHANGED <<image_paths, variant, queues, pc, data, idx, results, pushed, popped,
                   aggvars, batchvars, enginevars, strategyvars, crop>>

\* the stack is empty: if (!contour.empty()) contours.push_back(contour);
\* and the inner for loop goes on
trace_close ==
    /\ pc["main"] = "walk"
    /\ trace.stack = <<>>
    /\ trace' = [trace EXCEPT
                    !.contours = IF trace.contour /= <<>>
                                 THEN Append(@, trace.contour) ELSE @,
                    !.j = @ + 1]
    /\ pc' = [pc EXCEPT !["main"] = "scan"]
    /\ UNCHANGED <<image_paths, variant, queues, data, idx, results, pushed, popped,
                   aggvars, batchvars, enginevars, strategyvars, crop>>

TraceInit ==
    /\ variant = "cannytest"
    /\ \E rows \in 1..MaxTraceRows, cols \in 1..MaxTraceCols :
         \E img \in EdgeImages(rows, cols) :
           trace = [edge_image |-> img,
                    visited |-> [i \in 0..(rows - 1) |-> [j \in 0..(cols - 1) |-> FALSE]],
                    contours |-> <<>>,
                    contour |-> <<>>,
                    stack |-> <<>>,
                    i |-> 0,
                    j |-> 0]
    /\ crop = <<>>
    /\ image_paths = <<>>
    /\ queues = [k \in 1..3 |-> <<>>]
    /\ pc = [t \in {"main"} |-> "scan"]
    /\ data = <<>>
    /\ idx = [t \in {"main"} |-> 1]
    /\ results = <<>>
    /\ pushed = [k \in 1..3 |-> <<>>]
    /\ popped = [k \in 1..3 |-> <<>>]
    /\ AggIdle
    /\ BatchIdle
    /\ found = <<>>
    /\ image_size = [width |-> 0, height |-> 0]
    /\ cnt = <<>>
    /\ metrics = <<>>
    /\ divisions = <<>>
    /\ again = <<>>
    /\ sequential = <<>>

TraceNext == trace_scan \/ trace_pop \/ trace_close

\* the call runs on: a step that can be taken is taken
TraceSpec == TraceInit /\ [][TraceNext]_vars /\ WF_vars(TraceNext)

----------------------------------------------------------------------------
(* The crop box of process_image_cropped (minrectangle-CUDA.cpp): the       *)
(* bounding rectangle of the single contour of the binary image, widened by *)
(* the padding on every side and clipped to the image.                      *)

\* int padding = 10;
padding == 10

\* std::max and std::min
Max(a, b) == IF a >= b THEN a ELSE b
Min(a, b) == IF a <= b THEN a ELSE b

\* the sizes of the binary image: one pixel, narrower than two paddings,
\* wider than two paddings
BinarySizes ==
    {[cols |-> c, rows |-> r] : c \in {1, 12, MaxCropCols}, r \in {1, 12, MaxCropRows}}

\* boundingRect(contoursbi[0]): a rectangle of at least one pixel inside the
\* image, since findContours returns points of the image
BoundingRects(size) ==
    {[x |-> x, y |-> y, width |-> w, height |-> h] :
        x \in 0..(size.cols - 1), y \in 0..(size.rows - 1),
        w \in 1..size.cols, h \in 1..size.rows}

\* bounding_box.x = std::max(0, bounding_box.x - padding);  (and .y)
\* bounding_box.width = std::min(binary.cols - bounding_box.x,
\*                               bounding_box.width + 2 * padding);  (and .height)
\* each assignment reads the fields as the ones before it left them
pad_bounding_box_MutantOldOrigin(b, size) ==
    [x |-> Max(0, b.x - padding),
     y |-> Max(0, b.y - padding),
     width |-> Min(size.cols - b.x, b.width + 2 * padding),
     height |-> Min(size.rows - b.y, b.height + 2 * padding)]
pad_bounding_box(b, size) ==
    LET x == Max(0, b.x - padding)
        y == Max(0, b.y - padding)
    IN [x |-> x,
        y |-> y,
        width |-> Min(size.cols - x, b.width + 2 * padding),
        height |-> Min(size.rows - y, b.height + 2 * padding)]

\* Rect bounding_box = boundingRect(contoursbi[0]); ... the four assignments
crop_pad ==
    /\ pc["main"] = "boundingRect"
    /\ crop' = [crop EXCEPT !.bounding_box = pad_bounding_box(crop.bounding_box, crop.binary)]
    /\ pc' = [pc EXCEPT !["main"] = "cropped"]
    /\ UNCHANGED <<image_paths, variant, queues, data, idx, results, pushed, popped,
                   aggvars, batchvars, enginevars, strategyvars, trace>>

CropInit ==
    /\ variant = "minrectangle-CUDA"
    /\ \E size \in BinarySizes :
         \E b \in BoundingRects(size) :
           /\ b.x + b.width <= size.cols
           /\ b.y + b.height <= size.rows
           /\ crop = [binary |-> size, bounding_rect |-> b, bounding_box |-> b]
    /\ trace = <<>>
    /\ image_paths = <<>>
    /\ queues = [k \in 1..3 |-> <<>>]
    /\ pc = [t \in {"main"} |-> "boundingRect"]
    /\ data = <<>>
    /\ idx = [t \in {"main"} |-> 1]
    /\ results = <<>>
    /\ pushed = [k \in 1..3 |-> <<>>]
    /\ popped = [k \in 1..3 |-> <<>>]
    /\ AggIdle
    /\ BatchIdle
    /\ found = <<>>
    /\ image_size = [width |-> 0, height |-> 0]
    /\ cnt = <<>>
    /\ metrics = <<>>
    /\ divisions = <<>>
    /\ again = <<>>
    /\ sequential = <<>>

CropNext == crop_pad

CropSpec == CropInit /\ [][CropNext]_vars

----------------------------------------------------------------------------
(* Properties *)

\* the items the pops of stream k returned, in order
PoppedItems(k) == [i \in DOMAIN popped[k] |-> popped[k][i].item]

\* the sentinel has been pushed on stream 1 of the queue driver and the
\* stream has been emptied by its receivers
QDrained == pc["closer"] = "done" /\ queues[1] = <<>>

\* C1 (as stated): N pushed items followed by end-of-stream yield exactly N
\* pops with ok = true followed by one pop with ok = false, whatever the
\* number of receivers.
C1_Original ==
    QDrained =>
        /\ Len(popped[1]) = QItems + 1
        /\ \A i \in 1..QItems : popped[1][i].ok
        /\ ~popped[1][QItems + 1].ok

\* C1 (amended): N pushed items followed by the end-of-stream item yield
\* exactly N + 1 pops, every one with ok = true: the N items in the order they
\* were pushed, then the sentinel item itself; no pop ever reports ok = false.
C1_SentinelIsPoppedAsItem ==
    /\ \A i \in DOMAIN popped[1] : popped[1][i].ok
    /\ Len(popped[1]) <= QItems + 1
    /\ QDrained =>
          /\ Len(popped[1]) = QItems + 1
          /\ PoppedItems(1) = pushed[1]
          /\ \A i \in 1..QItems : popped[1][i].item /= Sentinel
          /\ popped[1][QItems + 1].item = Sentinel

\* C1 witness: the stream is closed and drained, and both receivers took
\* part in the pops
C1_Witness ==
    /\ QDrained
    /\ Len(popped[1]) = QItems + 1
    /\ \E i, j \in DOMAIN popped[1] : popped[1][i].by /= popped[1][j].by

\* the paths whose file can be decoded
Loadable == {i \in DOMAIN image_paths : image_paths[i].loadable}

\* every thread of the pipeline has returned
AllDone == \A t \in PipeThreads : pc[t] = "done"

\* the names of the items of a sequence, in order
Names(s) == [i \in DOMAIN s |-> s[i].name]

\* the test by which the consumer of stream k takes an item for end-of-stream:
\* data.image.empty() in the workers and in canny_t's main,
\* contour_data.name.empty() in ypc's main
IsEndOfStream(k, d) ==
    IF k = 3 /\ variant = "ypc" THEN d.name = EmptyString ELSE d.image.empty

\* the positions of stream k's history that hold an end-of-stream item
EndMarks(k) == {i \in DOMAIN pushed[k] : IsEndOfStream(k, pushed[k][i])}

\* C2: a frame whose image cannot be loaded is skipped: no item carrying its
\* name is ever pushed into the first stream.
C2_UnloadableNeverPushed ==
    \A i \in DOMAIN image_paths :
        ~image_paths[i].loadable =>
            \A j \in DOMAIN pushed[1] : pushed[1][j].name /= filename(i)

\* C3: when the run has completed, every loadable frame, also those after a
\* frame that failed to load, has passed every stage and reached main.
C3_LoadableFramesReachConsumer ==
    pc["main"] = "done" =>
        \A i \in Loadable :
            /\ \E j \in DOMAIN pushed[2] : pushed[2][j].name = filename(i)
            /\ \E j \in DOMAIN pushed[3] : pushed[3][j].name = filename(i)
            /\ \E j \in DOMAIN popped[3] : popped[3][j].item.name = filename(i)

\* C4: every stream receives exactly one item that its consumer takes for
\* end-of-stream (never more than one, and one by the end of the run), and
\* no item made from a decodable frame is taken for it.
C4_OneEndMarkPerStream ==
    \A k \in 1..3 :
        /\ Cardinality(EndMarks(k)) <= 1
        /\ AllDone => Cardinality(EndMarks(k)) = 1
        /\ \A i \in DOMAIN pushed[k] :
              pushed[k][i].name \in {filename(f) : f \in Loadable} =>
                  i \notin EndMarks(k)

\* C5: for every list of frames, under fair scheduling, all three workers and
\* main eventually return (main returns from its loop when it takes the
\* end-of-stream item).
C5_PipelineTerminates == <>AllDone

\* C5 witness: a run over a non-empty list has completed, main having taken
\* the end-of-stream item from the last stream
C5_Witness ==
    /\ AllDone
    /\ Len(image_paths) = MaxFrames
    /\ popped[3] /= <<>>
    /\ IsEndOfStream(3, popped[3][Len(popped[3])].item)

\* C6: no pushed item is returned by two pops, and an item leaves the queue
\* exactly when a pop returns it: the items returned so far followed by the
\* items still queued are the items pushed so far.
C6_NoItemDeliveredTwice ==
    /\ \A i, j \in DOMAIN popped[1] : i /= j => popped[1][i].item /= popped[1][j].item
    /\ \A i \in DOMAIN popped[1] : \A j \in DOMAIN queues[1] :
          popped[1][i].item /= queues[1][j]
    /\ Len(popped[1]) + Len(queues[1]) = Len(pushed[1])

\* C6 witness: two different receivers have each been handed an item while a
\* further item is queued
C6_Witness ==
    /\ Len(popped[1]) >= 2
    /\ popped[1][1].by /= popped[1][2].by
    /\ queues[1] /= <<>>

\* C7: a worker blocked in pop on an empty stream eventually returns from pop
\* with an item: no push leaves it blocked.
C7_BlockedPopReturns ==
    \A t \in {"t2", "t3"} : (pc[t] = "wait") ~> (pc[t] \in {"work", "sentinel"})

\* C7 witness: a push has woken the worker that was blocked on the stream
C7_Witness ==
    \E t \in {"t2", "t3"} :
        /\ pc[t] = "woken"
        /\ Len(queues[InQ(t)]) = 1
        /\ Len(pushed[InQ(t)]) = 1

\* thread t has left its loop: it has taken an item for end-of-stream
ObservedEnd(t) == pc[t] \in {"sentinel", "notify_end", "done"}

\* the producer of stream k has pushed its sentinel
Signalled(k) ==
    /\ pushed[k] /= <<>>
    /\ pushed[k][Len(pushed[k])] \in {Sentinel, ContourSentinel}

\* C8: once end-of-stream has been signalled on a stream, its receiver
\* observes end-of-stream only after every item that was made from a decodable
\* frame and pushed before the signal has been delivered to it.
C8_GracefulDrain ==
    \A t \in {"t2", "t3", "main"} :
        (ObservedEnd(t) /\ Signalled(InQ(t))) =>
            \A i \in 1..(Len(pushed[InQ(t)]) - 1) :
                pushed[InQ(t)][i].name \in {filename(f) : f \in Loadable} =>
                    \E j \in DOMAIN popped[InQ(t)] :
                        popped[InQ(t)][j].item = pushed[InQ(t)][i]

\* C9: the items of one producer are delivered in the order it pushed them,
\* also when two producers push on the same stream.
C9_ProducerOrderPreserved ==
    \A i, j \in DOMAIN popped[1] :
        LET a == popped[1][i].item.name
            b == popped[1][j].item.name
        IN (i < j /\ Len(a) = 2 /\ Len(b) = 2 /\ a[1] = b[1]) => a[2] < b[2]

\* C9 witness: deliveries of the two producers interleave
C9_Witness ==
    /\ Len(popped[1]) >= 3
    /\ popped[1][1].item.name = <<"p1", 1>>
    /\ popped[1][2].item.name = <<"p2", 1>>
    /\ popped[1][3].item.name = <<"p1", 2>>

\* the subsequence of the items of s with a non-empty image
RECURSIVE NonEmptyItems(_)
NonEmptyItems(s) ==
    IF s = <<>> THEN <<>>
    ELSE IF Head(s).image.empty THEN NonEmptyItems(Tail(s))
         ELSE <<Head(s)>> \o NonEmptyItems(Tail(s))

\* the frames worker_process has received, and the masks it has emitted
FramesReceived == NonEmptyItems(PoppedItems(1))
MasksEmitted == NonEmptyItems(pushed[2])

\* worker_process has emitted, in order and under the same names, one mask
\* for every frame it received, but for the frame it is working on
MasksFollowFrames ==
    /\ \A i \in DOMAIN MasksEmitted : MasksEmitted[i].image.stage = "mask"
    /\ IF pc["t2"] = "work"
       THEN Names(FramesReceived) = Names(MasksEmitted) \o <<data["t2"].name>>
       ELSE Names(FramesReceived) = Names(MasksEmitted)

\* C10: worker_process emits one mask per frame it receives, same name, same
\* order, drops no frame, and pushes end-of-stream on its output only when
\* its input stream has completed (no decodable frame is still to come or
\* left in it).
C10_OneMaskPerFrameThenClose ==
    /\ MasksFollowFrames
    /\ (\E i \in DOMAIN pushed[2] : pushed[2][i] = Sentinel) =>
          \A f \in Loadable :
              \E j \in DOMAIN popped[1] : popped[1][j].item.name = filename(f)

\* C11: a record with no contours is an item like any other: main takes it,
\* does not leave its loop on it, and goes on to take every record pushed
\* after it, up to the sentinel.
C11_EmptyRecordIsNotEndOfStream ==
    /\ \A i \in DOMAIN popped[3] :
          (popped[3][i].item.name /= EmptyString /\ i < Len(popped[3])) =>
              popped[3][i + 1].item = pushed[3][i + 1]
    /\ pc["main"] = "done" =>
          /\ PoppedItems(3) = pushed[3]
          /\ \A i \in 1..(Len(popped[3]) - 1) : popped[3][i].item.name /= EmptyString

\* C11 witness (ypc): main has finished, having taken a record without
\* contours and then the record of a later frame
C11_Witness ==
    /\ variant = "ypc"
    /\ pc["main"] = "done"
    /\ \E i \in DOMAIN popped[3] :
          /\ i + 1 < Len(popped[3])
          /\ popped[3][i].item.contours = <<>>
          /\ popped[3][i].item.name /= EmptyString
          /\ popped[3][i + 1].item.contours /= <<>>
          /\ \E r \in DOMAIN results : results[r].name = popped[3][i + 1].item.name

\* the stream a stage worker pushes to
OutQ(t) == InQ(t) + 1

\* the state of a stage worker: 1 Running (in its loop), 2 Draining (out of
\* its loop, forwarding end-of-stream), 3 Terminated (returned)
Phase(t) ==
    CASE pc[t] = "done" -> 3
      [] pc[t] \in {"sentinel", "notify_end"} -> 2
      [] OTHER -> 1

\* what worker t has forwarded: an end-of-stream item only as the last item
\* of its output, only after it took an end-of-stream item from its input,
\* and after one output for every item it took before that one
ForwardsEndLast(t) ==
    \A i \in EndMarks(OutQ(t)) :
        /\ i = Len(pushed[OutQ(t)])
        /\ popped[InQ(t)] /= <<>>
        /\ IsEndOfStream(InQ(t), popped[InQ(t)][Len(popped[InQ(t)])].item)
        /\ Len(popped[InQ(t)]) = i
        /\ \A j \in 1..(i - 1) :
              pushed[OutQ(t)][j].name = popped[InQ(t)][j].item.name

\* C12: a stage worker only moves Running -> Draining -> Terminated; it
\* forwards end-of-stream only after it received end-of-stream and finished
\* every item received before it, and pushes nothing afterwards.
C12_WorkerStateMachine ==
    /\ [](\A t \in {"t2", "t3"} : ForwardsEndLast(t))
    /\ [][\A t \in {"t2", "t3"} : Phase(t)' \in {Phase(t), Phase(t) + 1}]_vars

\* C12 witness: worker_process has terminated after at least one frame and
\* worker_contour is draining
C12_Witness ==
    /\ pc["t2"] = "done"
    /\ Len(pushed[2]) >= 2
    /\ pc["t3"] = "sentinel"
    /\ Len(pushed[3]) >= 1

\* no worker of the shared stage can take another step, and nothing is left
\* for any of them to take
SharedQuiescent ==
    /\ pc["t1"] = "done"
    /\ queues[1] = <<>>
    /\ \A w \in SharedWorkers : pc[w] \in {"wait", "done"}

C14_NoPushAcceptedAfterEnd ==
    \A k \in 1..3 : \A i \in EndMarks(k) : i = Len(pushed[k])

\* a step that pushes an end-of-stream item on stream k
PushesEnd(k) ==
    /\ Len(pushed'[k]) = Len(pushed[k]) + 1
    /\ IsEndOfStream(k, pushed'[k][Len(pushed'[k])])

PushNeverBlocks ==
    /\ pc["t1"] = "load" => ENABLED (worker_load_push \/ worker_load_sentinel)
    /\ pc["t2"] = "work" => ENABLED worker_process_work
    /\ pc["t2"] = "sentinel" => ENABLED worker_process_sentinel
    /\ pc["t3"] = "work" => ENABLED (worker_contour_work \/ worker_contour_push)
    /\ pc["t3"] = "sentinel" => ENABLED (worker_contour_sentinel \/ worker_contour_push)

C17_AggregateUpdatedUnderMutex ==
    [][(\/ number' /= number
        \/ totaltime_c' /= totaltime_c
        \/ max_process_time' /= max_process_time)
          => (mtx = "worker" /\ mtx' = "worker")]_vars

\* C18: whenever the mutex is free, the stored file name is that of a frame
\* whose processing time, as the worker aggregated it, is the stored
\* maximum (or no frame has raised the maximum yet and no name is stored).
C18_MaxPairedWithItsFrame ==
    (variant = "original-thread" /\ mtx = "free") =>
        \/ max_process_time = 0 /\ max_image = EmptyString
        \/ \E i \in DOMAIN aggregated :
              /\ aggregated[i].name = max_image
              /\ aggregated[i].processtime = max_process_time

\* C18 witness: the maximum has been raised by a first frame and raised again
\* by a later one, whose name replaced the first
C18_Witness ==
    /\ variant = "original-thread"
    /\ mtx = "free"
    /\ Len(aggregated) >= 2
    /\ aggregated[1].contours
    /\ aggregated[2].processtime > aggregated[1].processtime
    /\ max_image = aggregated[2].name
    /\ max_process_time = aggregated[2].processtime

\* the run is over: group.wait() has returned and the aggregate is reported
RunDone == pc["main"] = "done"

\* three frames, each with contours, with the processing times `times`
TimedScenario(times) ==
    /\ Len(image_paths) = 3
    /\ \A i \in 1..3 : image_paths[i].contours /\ image_paths[i].time = times[i]

\* the reported mean is m
MeanIs(m) == Average.set /\ Average.den /= 0 /\ Average.num = m * Average.den

\* C19 (as stated): for frames with processing times 10, 30 and 20 the run
\* reports mean 20, max 30 and the identifier of the third frame.
C19_Original ==
    (RunDone /\ TimedScenario(<<10, 30, 20>>)) =>
        /\ MeanIs(20)
        /\ max_process_time = 30
        /\ variant = "original-thread" => max_image = filename(3)

\* C19: for three frames with processing times 10, 30 and 20 in any order
\* the run reports mean 20, max 30 and the identifier of the frame whose
\* time is 30: the second frame when the times are 10, 30, 20.
C19_MaxIdentifierIsSlowestFrame ==
    \A times \in {<<10, 30, 20>>, <<10, 20, 30>>, <<20, 10, 30>>,
                  <<20, 30, 10>>, <<30, 10, 20>>, <<30, 20, 10>>} :
        (RunDone /\ TimedScenario(times)) =>
            /\ MeanIs(20)
            /\ max_process_time = 30
            /\ variant = "original-thread" =>
                  \E i \in 1..3 : times[i] = 30 /\ max_image = filename(i)

\* C19 witness: the run over the frames 10, 30, 20 is over and the second
\* frame is reported
C19_Witness ==
    /\ RunDone
    /\ TimedScenario(<<10, 30, 20>>)
    /\ variant = "original-thread"
    /\ MeanIs(20)
    /\ max_image = filename(2)

\* the per-frame results aggregated so far: the frames in which contours
\* were found, the only ones whose processing time was measured
FrameResults == SelectSeq(aggregated, LAMBDA e : e.contours)

RECURSIVE SumOfTimes(_)
SumOfTimes(s) == IF s = <<>> THEN 0 ELSE Head(s).processtime + SumOfTimes(Tail(s))

\* the largest processing time of s, 0 for none (the initial maximum)
LargestTime(s) ==
    IF s = <<>> THEN 0
    ELSE CHOOSE m \in {s[i].processtime : i \in DOMAIN s} :
             \A i \in DOMAIN s : s[i].processtime <= m

\* the worker is between two aggregate updates
BetweenUpdates ==
    /\ mtx = "free"
    /\ pc["worker"] \in {"loop", "try_pop", "after_loop", "done"}

\* C20: after every aggregate update the count is the number of frames
\* aggregated so far (with or without the frames that gave no result), the
\* time sum is the sum of the processing times of the per-frame results and
\* the maximum is the largest of them.
C20_AggregatesAreIncremental ==
    BetweenUpdates =>
        /\ number \in {Len(FrameResults), Len(aggregated)}
        /\ totaltime_c = SumOfTimes(FrameResults)
        /\ max_process_time = LargestTime(FrameResults)

\* the worker task can no longer update the aggregate: it has left its loop
\* for good and does not hold the mutex
WorkerFinished ==
    /\ pc["worker"] = "done"
    /\ mtx = "free"
    /\ processing_complete
    /\ image_queue = <<>>

\* C21: the aggregate is read for the report only after the worker has
\* finished: once the average has been computed the worker can update
\* nothing, and the figures read are the final ones, those of all the frames
\* of the directory.
C21_ReportReadAfterWorkers ==
    Average.set =>
        /\ WorkerFinished
        /\ Average.num = totaltime_c
        /\ Average.den = number
        /\ Len(aggregated) = Len(image_paths)

\* C21 witness: c++.cpp's main has computed the report of a run of at least
\* two frames
C21_Witness ==
    /\ variant = "c++"
    /\ pc["main"] = "done"
    /\ Average.set
    /\ Len(aggregated) >= 2
    /\ Average.den = Len(aggregated)

\* the frames of the directory in which contours are found
FramesWithContours == {i \in DOMAIN image_paths : image_paths[i].contours}

RECURSIVE SumOfFrameTimes(_)
SumOfFrameTimes(S) ==
    IF S = {} THEN 0
    ELSE LET i == CHOOSE j \in S : TRUE
         IN image_paths[i].time + SumOfFrameTimes(S \ {i})

\* C22: a frame in which no contour is found is left out of the aggregate:
\* when the run is over the count is the number of the other frames, the
\* time sum is the sum of their processing times and the maximum is the
\* largest of them.
C22_EmptyRecordExcludedFromAggregate ==
    RunDone =>
        /\ number = Cardinality(FramesWithContours)
        /\ totaltime_c = SumOfFrameTimes(FramesWithContours)
        /\ \A i \in FramesWithContours : image_paths[i].time <= max_process_time
        /\ max_process_time \in {0} \cup {image_paths[i].time : i \in FramesWithContours}

\* the parallel batch is over: main has printed its report
BatchDone == pc["main"] = "done" /\ report /= <<>>

\* the frames of the batch that imread decodes
DecodableFrames == {i \in DOMAIN image_paths : image_paths[i].loadable}

\* C23: a frame whose image cannot be loaded is left out of the aggregates:
\* the number of images reported as processed is the number of decodable
\* frames and the time sum (hence the mean) is the sum of their times.
C23_UndecodableExcludedFromAggregate ==
    BatchDone =>
        /\ report.count = Cardinality(DecodableFrames)
        /\ report.total = SumOfFrameTimes(DecodableFrames)
        /\ variant = "canny_p" => processed_count = Cardinality(DecodableFrames)

\* C24: every record main prints for a decodable frame pairs the frame's
\* identifier with the metrics and the processing time computed for that
\* same frame, however the worker threads interleave.
C24_RecordPairsOneFrame ==
    BatchDone =>
        \A i \in DecodableFrames :
            /\ report.records[i].identifier = filename(i)
            /\ report.records[i].metrics.frame = i
            /\ report.records[i].processing_time.frame = i

\* the call of the metrics engine has returned
Returned == pc["main"] = "done"

\* the programs that select the contour of the largest area
LargestAreaVariants == {"c++", "Tbb", "canny_p", "speed", "ypc"}

\* C25: under the largest-area policy no contour is selected when none is
\* found, the only contour is selected when one is found, and when several
\* are found the selected contour is one of them and no found contour
\* encloses a larger area.
C25_LargestAreaSelection ==
    (Returned /\ variant \in LargestAreaVariants) =>
        /\ found = <<>> => cnt = <<>>
        /\ Len(found) = 1 => cnt = found[1]
        /\ Len(found) > 1 =>
               /\ \E i \in DOMAIN found : cnt = found[i]
               /\ \A j \in DOMAIN found : Area2(found[j]) <= Area2(cnt)

\* two contours were found, the second the larger, and it was selected
C25_Witness ==
    /\ Returned
    /\ variant \in {"c++", "ypc"}
    /\ Len(found) = 2
    /\ Area2(found[1]) < Area2(found[2])
    /\ cnt = found[2]
\* the programs that run the strict policy
StrictVariants == {"crop_test", "crop_canny"}

\* the contour has a point on the border of the image
TouchesBorder(c, size) ==
    \E i \in DOMAIN c : \/ c[i][1] <= 0
                        \/ c[i][2] <= 0
                        \/ c[i][1] >= size.width - 1
                        \/ c[i][2] >= size.height - 1

\* no contour was selected and the record returned is ContourMetrics()
EmptyResult ==
    /\ cnt = <<>>
    /\ metrics = <<ValueInitialized>>
    /\ divisions = <<>>

\* C26: under the strict policy the result is empty when more than one
\* contour is found and when the contour has a point with x <= 0, y <= 0,
\* x >= width - 1 or y >= height - 1; a single contour with no such point
\* is accepted: it is the contour the metrics are computed for.
C26_StrictPolicy ==
    (Returned /\ variant \in StrictVariants) =>
        /\ Len(found) > 1 => EmptyResult
        /\ (Len(found) = 1 /\ TouchesBorder(found[1], image_size)) => EmptyResult
        /\ (Len(found) = 1 /\ ~TouchesBorder(found[1], image_size)) =>
               /\ cnt = found[1]
               /\ metrics[1].area_original = contourArea(found[1])

\* a single contour reaching the last column only was rejected
C26_Witness ==
    /\ Returned
    /\ variant \in StrictVariants
    /\ Len(found) = 1
    /\ \E i \in DOMAIN found[1] : found[1][i][1] = image_size.width - 1
    /\ \A i \in DOMAIN found[1] : /\ found[1][i][1] > 0
                                  /\ found[1][i][2] > 0
                                  /\ found[1][i][2] < image_size.height - 1
    /\ EmptyResult
\* the area or the perimeter of the contour or of its hull is below 1e-6
\* (an area is a multiple of 0.5, a perimeter 0 or at least 1)
Degenerate(c) ==
    \/ Area2(c) = 0
    \/ arcLength(c) = 0
    \/ Area2(convexHull(c)) = 0
    \/ arcLength(convexHull(c)) = 0

\* the programs whose calculate_contour_metrics the degenerate-input guard
\* is stated for
GuardVariants == {"c++", "speed", "Tbb"}

\* C27: when the area or the perimeter of the selected contour or of its
\* hull is below the epsilon, every field of the record returned is zero
\* and no division had a zero (or NaN) divisor.
C27_DegenerateGuard ==
    (Returned /\ variant \in GuardVariants /\ cnt /= <<>> /\ Degenerate(cnt)) =>
        /\ \A f \in MetricFields : IsZero(metrics[1][f])
        /\ \A i \in DOMAIN divisions : divisions[i] = "nonzero"
\* the programs whose calculate_contour_metrics is applied to what
\* findContours returned, an empty vector included
UnfilteredVariants == {"c++", "Tbb", "canny_p"}

\* C28: calculate_contour_metrics applied to an empty contour vector returns
\* a record whose six doubles are all zero, and performs no division.
C28_EmptySetYieldsZeroMetrics ==
    (Returned /\ variant \in UnfilteredVariants /\ found = <<>>) =>
        /\ \A f \in MetricFields : IsZero(metrics[1][f])
        /\ divisions = <<>>
\* the programs that return a ContourMetrics
MetricsVariants == {"c++", "Tbb", "canny_p", "speed", "crop_test", "crop_canny"}

\* x >= y for two areas <<2*area, 2>>
AreaAtLeast(x, y) == x.kind = "finite" /\ y.kind = "finite" /\ x.v[1] >= y.v[1]

\* C29: for a selected contour that is not degenerate the area of the convex
\* hull is at least the area of the contour, and the area_ratio reported,
\* hull area / contour area, is at least 1.
C29_HullAreaAtLeastContourArea ==
    (Returned /\ variant \in MetricsVariants /\ cnt /= <<>> /\ ~Degenerate(cnt)) =>
        /\ AreaAtLeast(metrics[1].area_hull, metrics[1].area_original)
        /\ metrics[1].area_original = contourArea(cnt)
        /\ metrics[1].area_ratio.kind = "finite"
        /\ metrics[1].area_ratio.v[1] >= metrics[1].area_ratio.v[2]
        /\ metrics[1].area_ratio.v[2] > 0

\* c++.cpp reported an area_ratio above 1 for a contour that is not convex
C29_Witness ==
    /\ Returned
    /\ variant = "c++"
    /\ cnt /= <<>>
    /\ ~Degenerate(cnt)
    /\ metrics[1].area_ratio.kind = "finite"
    /\ metrics[1].area_ratio.v[1] > metrics[1].area_ratio.v[2]
    /\ metrics[1].area_ratio.v[2] > 0
\* a * p * p as digits to the base 2^14, lowest first (a < 2^14, p < 2^28)
TimesSquare(a, p) ==
    LET B == 2^14
        RECURSIVE Carry(_, _)
        Carry(ds, c) ==
            IF ds = <<>> THEN (IF c = 0 THEN <<>> ELSE <<c % B>> \o Carry(<<>>, c \div B))
            ELSE <<(Head(ds) + c) % B>> \o Carry(Tail(ds), (Head(ds) + c) \div B)
        h == p \div B
        l == p % B
        square == Carry(<<l * l, 2 * h * l, h * h>>, 0)
    IN Carry([i \in DOMAIN square |-> a * square[i]], 0)

\* x >= y for two numbers given by their digits, lowest first
DigitsAtLeast(x, y) ==
    LET Digit(s, i) == IF i <= Len(s) THEN s[i] ELSE 0
        RECURSIVE From(_)
        From(i) ==
            IF i = 0 THEN TRUE
            ELSE IF Digit(x, i) > Digit(y, i) THEN TRUE
            ELSE IF Digit(x, i) < Digit(y, i) THEN FALSE
            ELSE From(i - 1)
    IN From(IF Len(x) > Len(y) THEN Len(x) ELSE Len(y))

\* x >= y for two circularities <<2*area, perimeter>> of the same formula,
\* 4*pi*A / (P*P) or 2*sqrt(pi*A) / P:  Ax * Py * Py >= Ay * Px * Px
CircularityAtLeast(x, y) ==
    /\ x.kind = "finite"
    /\ y.kind = "finite"
    /\ DigitsAtLeast(TimesSquare(x.v[1], y.v[2]), TimesSquare(y.v[1], x.v[2]))

\* r >= 1 for a circularity_ratio
\* <<2*hull area, hull perimeter, 2*area, perimeter>>
RatioAtLeastOne(r) ==
    /\ r.kind = "finite"
    /\ Len(r.v) = 4
    /\ DigitsAtLeast(TimesSquare(r.v[1], r.v[4]), TimesSquare(r.v[3], r.v[2]))

\* the circularity of the hull and of the contour, as the program names them
HullCircularity ==
    IF variant = "ypc" THEN metrics[1].hull_circularity ELSE metrics[1].circularity_hull
ContourCircularity ==
    IF variant = "ypc" THEN metrics[1].circularity ELSE metrics[1].circularity_original

\* the programs that compute the circularity as 4*pi*A / (P*P)
CircularityVariants == {"c++", "ypc"}

\* C30: for a selected contour that is not degenerate the circularity of the
\* convex hull is at least the circularity of the contour, and the
\* circularity_ratio reported, hull circularity / contour circularity, is at
\* least 1.
C30_HullCircularityAtLeastContourCircularity ==
    (Returned /\ variant \in CircularityVariants /\ cnt /= <<>> /\ ~Degenerate(cnt)) =>
        /\ CircularityAtLeast(HullCircularity, ContourCircularity)
        /\ RatioAtLeastOne(metrics[1].circularity_ratio)
\* C31: calculate_contour_metrics called twice on the same contours (the
\* empty vector included) returns the same value in every field.
C31_MetricsAreDeterministic ==
    pc["main"] = "twice" => again = metrics
\* both strategies of speed_test.cpp have returned
StrategiesDone == variant = "speed_test" /\ pc["main"] = "done"

\* C32: for the same list of image paths process_images_parallel returns a
\* vector equal element by element to the one process_images_sequential
\* returns, and element i is the result of process_image for path i,
\* however the ranges are divided and scheduled.
C32_ParallelEqualsSequential ==
    StrategiesDone =>
        /\ Len(results) = Len(image_paths)
        /\ Len(sequential) = Len(image_paths)
        /\ \A i \in DOMAIN image_paths :
               /\ results[i] = sequential[i]
               /\ results[i] = process_image_speed_test(image_paths[i], ValueInitialized)

\* three frames with three different results, divided between both
\* threads, have been processed by both strategies
C32_Witness ==
    /\ StrategiesDone
    /\ Len(image_paths) = 3
    /\ chunks["th0"][2] \in 1..2
    /\ results[1] /= results[2]
    /\ results[2] /= results[3]
    /\ results[1] /= results[3]
    /\ results = sequential

\* the mask of the sequential reference chain of Tbb.cpp for a binary image
SequentialMask(b) == erode(dilate(dilate(erode(b))))

\* C33: the mask the split morphology of canny_p.cpp and openmp.cpp passes
\* to Canny equals the mask that the sequential chain erode, dilate, dilate,
\* erode produces from the same binary image.
C33_SplitMorphologyEqualsSequential ==
    (variant \in {"canny_p", "openmp"} /\ pc["main"] = "done" /\ data["edge"] /= <<>>) =>
        data["edge"][1] = SequentialMask(data["binary"][1])

\* the consumer task has left its polling loop
LeftLoop == pc["worker"] \in {"after_loop", "done"}

\* every path pushed so far has been dequeued and processed exactly once, in
\* the order of the pushes
EveryPathProcessedOnce ==
    /\ image_queue = <<>>
    /\ Len(aggregated) = idx["main"] - 1
    /\ \A i \in DOMAIN aggregated : aggregated[i].name = filename(i)

\* C34: the polling consumer never leaves its loop while a path is still to
\* be pushed or an enqueued path is unprocessed: when group.wait() has
\* returned every path of the directory has been pushed, dequeued and
\* processed exactly once, and the counter `number` of run_experiment equals
\* the number of pushed paths, for every interleaving.
C34_ConsumerProcessesEveryPath ==
    /\ LeftLoop => (processing_complete /\ EveryPathProcessedOnce)
    /\ RunDone =>
        /\ LeftLoop
        /\ idx["main"] - 1 = Len(image_paths)
        /\ variant = "c++" => number = Len(image_paths)

\* run_experiment has returned after three paths, one of a frame without
\* contours, were pushed and counted
C34_Witness ==
    /\ RunDone
    /\ variant = "c++"
    /\ Len(image_paths) = 3
    /\ ~image_paths[2].contours
    /\ Len(aggregated) = 3
    /\ number = 3

\* the producer has pushed all paths and set processing_complete
ProducerFinished == processing_complete /\ idx["main"] = Len(image_paths) + 1

\* C35: the polling consumer terminates: once the producer has pushed all
\* paths and set processing_complete, under fair scheduling the consumer
\* drains the queue and leaves its loop and group.wait() returns, also when
\* no path was pushed at all.
C35_ConsumerTerminates ==
    ProducerFinished ~> (WorkerFinished /\ RunDone)

\* group.wait() has returned in a run in which no path was pushed
C35_Witness ==
    /\ RunDone
    /\ WorkerFinished
    /\ Len(image_paths) = 0

\* the frames with contours whose processing time is the largest
SlowestFrames ==
    {i \in FramesWithContours :
        \A j \in FramesWithContours : image_paths[j].time <= image_paths[i].time}

\* C36: in thread_main the reported average is the sum of the processing
\* times of exactly the frames counted in `number` (those in which contours
\* were found) divided by `number`; a frame without contours adds nothing to
\* the time total and changes neither the maximum nor its identifier.
C36_AverageOverCountedFrames ==
    (variant = "original-thread" /\ RunDone) =>
        /\ Average.set
        /\ Average.den = number
        /\ number = Cardinality(FramesWithContours)
        /\ Average.num = SumOfFrameTimes(FramesWithContours)
        /\ IF FramesWithContours = {}
           THEN max_process_time = 0 /\ max_image = EmptyString
           ELSE \E i \in SlowestFrames :
                    /\ max_process_time = image_paths[i].time
                    /\ max_image = filename(i)

\* the parallel loop has finished: every worker has left its range
ParallelLoopFinished == \A t \in BatchWorkers : pc[t] = "done"

\* C37: in Tbb.cpp, after the parallel loop has finished, every index the
\* report loop reads is a valid index of results and of processing_times:
\* both have as many elements as image_paths, also when an image fails to
\* load.
C37_ReportIndicesAreValid ==
    (variant = "Tbb" /\ ParallelLoopFinished) =>
        /\ Len(results) = Len(image_paths)
        /\ Len(processing_times) = Len(image_paths)
        /\ \A i \in 1..Len(image_paths) :
               i \in DOMAIN results /\ i \in DOMAIN processing_times

\* the threads whose range holds frame k
ThreadsOf(k) == {t \in DOMAIN chunks : chunks[t][1] <= k /\ k <= chunks[t][2]}

\* the stored processing times that were measured for frame k
TimesOf(k) == {j \in DOMAIN processing_times : processing_times[j].frame = k}

\* C38: the chunked work split of canny_p.cpp is a partition: for every
\* number of images and every thread count of at least one, once all
\* threads are started every image index lies in the range of exactly one
\* thread, and after the joins every image has been processed exactly once
\* and processed_count equals the number of images.
C38_ChunksPartitionImages ==
    /\ pc["main"] \in {"join", "done"} =>
           \A k \in DOMAIN image_paths : Cardinality(ThreadsOf(k)) = 1
    /\ pc["main"] = "done" =>
           /\ processed_count = Len(image_paths)
           /\ Len(processing_times) = Len(image_paths)
           /\ \A k \in DOMAIN image_paths :
                  /\ Cardinality(TimesOf(k)) = 1
                  /\ results[k].frame = k

\* four images were divided between three threads (chunk_size 1, the last
\* thread takes two) and all were processed
C38_Witness ==
    /\ pc["main"] = "done"
    /\ Len(image_paths) = 4
    /\ num_threads = 3
    /\ chunks["th2"] = <<3, 4>>
    /\ processed_count = 4

\* trace_contours has returned
TraceReturned == variant = "cannytest" /\ pc["main"] = "done"

\* the non-zero pixels of the edge image
EdgePixels ==
    {p \in (DOMAIN trace.edge_image) \X (DOMAIN trace.edge_image[0]) :
        trace.edge_image[p[1]][p[2]] /= 0}

\* p and q are 4-adjacent
Adjacent4(p, q) == Abs(p[1] - q[1]) + Abs(p[2] - q[2]) = 1

\* the edge pixels linked to a pixel of S by a path of 4-adjacent edge pixels
RECURSIVE Linked(_)
Linked(S) ==
    LET more == S \cup {q \in EdgePixels : \E p \in S : Adjacent4(p, q)}
    IN IF more = S THEN S ELSE Linked(more)

\* the places (contour, position) at which pixel p was returned
PlacesOf(p) ==
    UNION {{<<c, k>> : k \in {l \in DOMAIN trace.contours[c] : trace.contours[c][l] = p}} :
              c \in DOMAIN trace.contours}

\* the returned contours are the 4-connected components of the edge pixels
ContoursAreComponents ==
    /\ \A p \in EdgePixels : Cardinality(PlacesOf(p)) = 1
    /\ \A c \in DOMAIN trace.contours :
           /\ trace.contours[c] /= <<>>
           /\ \A k \in DOMAIN trace.contours[c] : trace.contours[c][k] \in EdgePixels
    /\ \A p, q \in EdgePixels :
           (\E c \in DOMAIN trace.contours :
                \E k, l \in DOMAIN trace.contours[c] :
                    trace.contours[c][k] = p /\ trace.contours[c][l] = q)
               <=> q \in Linked({p})

\* C39: trace_contours partitions the edge pixels into 4-connected
\* components: for every non-empty rectangular image it returns, every
\* non-zero pixel is in exactly one returned contour exactly once, no zero
\* pixel is in any contour, and two pixels are in the same contour exactly
\* when a path of 4-adjacent non-zero pixels links them.
C39_TraceContoursFindsComponents ==
    /\ <>TraceReturned
    /\ [](TraceReturned => ContoursAreComponents)

\* trace_contours has returned two contours for an image of three rows and
\* two columns: a pixel, and an L-shaped component that touches it only
\* diagonally and is walked with a step to the left
C39_Witness ==
    /\ TraceReturned
    /\ Rows(trace.edge_image) = 3
    /\ Cols(trace.edge_image) = 2
    /\ EdgePixels = {<<0, 0>>, <<1, 1>>, <<2, 1>>, <<2, 0>>}
    /\ Len(trace.contours) = 2
    /\ trace.contours[2] = <<<<1, 1>>, <<2, 1>>, <<2, 0>>>>

\* the padded crop box has been computed
Cropped == variant = "minrectangle-CUDA" /\ pc["main"] = "cropped"

\* C40: the padded crop box lies inside the image and contains the original
\* bounding box, for every bounding box inside the image and a padding of
\* 10.
C40_CropBoxInsideImage ==
    Cropped =>
        LET b == crop.bounding_box
            r == crop.bounding_rect
        IN /\ b.x >= 0
           /\ b.y >= 0
           /\ b.x + b.width <= crop.binary.cols
           /\ b.y + b.height <= crop.binary.rows
           /\ b.x <= r.x
           /\ b.y <= r.y
           /\ r.x + r.width <= b.x + b.width
           /\ r.y + r.height <= b.y + b.height

\* a box was padded whose origin is clipped at the top and whose width is
\* clipped at the right, with the full padding at the left
C40_Witness ==
    /\ Cropped
    /\ crop.bounding_rect = [x |-> 15, y |-> 3, width |-> 4, height |-> 2]
    /\ crop.binary = [cols |-> 22, rows |-> 22]
    /\ crop.bounding_box = [x |-> 5, y |-> 0, width |-> 17, height |-> 22]

====
